---- MODULE Spec2Model ----
(***************************************************************************)
(* A model of pywizlight's request/response transport (wizlight.send and   *)
(* the retransmission task), of the facade operations built on it, and of  *)
(* the command builder (PilotBuilder).                                     *)
(*                                                                         *)
(* Time is counted in units of 10 ms, so that FIRST_SEND_INTERVAL = 0.75 s *)
(* is the integer 75.  The event loop is modelled the way asyncio runs it: *)
(* a coroutine runs without interruption between two awaits, I/O callbacks *)
(* and timers run between those steps, and the clock advances only when    *)
(* nothing is ready to run.                                                *)
(***************************************************************************)
EXTENDS Integers, Sequences, FiniteSets, TLC

(***************************************************************************)
(* Bounds of the model.                                                    *)
(***************************************************************************)
MaxFacades == 2     \* facades that subscribe to push updates
MaxStarts == 3      \* start_push() calls
MaxCloses == 2      \* async_close() calls on subscribed facades
MaxPush == 2        \* notifications that arrive at the listener
MaxDatagrams == 3   \* datagrams that arrive at the discovery socket
MaxWait == 2        \* the longest wait window of find_wizlights, in seconds
MaxResolvers == 2   \* get_bulbtype() calls
MaxClock == 36      \* the seconds the clock of the polling specification runs
MaxUpdates == 2     \* updateState() calls of a facade that receives push updates
MinSaturation == 10 \* percent: the least saturation at which a hue is compared
HueCotangent == 30  \* the cotangent of the angle hues may differ by
MaxKeepAlive == 40  \* the seconds the clock of the keep-alive specification runs
KeepAliveStep == 10 \* the seconds by which that clock advances
MaxCalls == 2       \* operations the application starts on the facade
MaxEvents == 2      \* events from outside the calls: replies the device sends, OS-level
                    \* socket errors, effective async_close() calls

(***************************************************************************)
(* Program constants (bulb.py), times in units of 10 ms.                   *)
(***************************************************************************)
TIMEOUT == 1300
MAX_SEND_DATAGRAMS == 6
FIRST_SEND_INTERVAL == 75
MAX_BACKOFF == 300
METHOD_NOT_FOUND == -32601
PUSH_KEEP_ALIVE_INTERVAL == 2000

Calls == 1..MaxCalls

\* The values the module globals FIRST_SEND_INTERVAL and TIMEOUT can hold when
\* send() reads them: the defaults, and the values the tests patch in
\* (test_timeout: both 0.01 s, so that the TIMEOUT is not longer than the first
\* interval).
TimingConfigs ==
    { [first |-> FIRST_SEND_INTERVAL, timeout |-> TIMEOUT],
      [first |-> 1, timeout |-> 1] }

\* The facade operations of the transport specification and the method each
\* one sends.
Ops == {"updateState", "turn_off"}

MethodOf(o) == IF o = "updateState" THEN "getPilot" ELSE "setPilot"

\* The result mappings a device may put into a reply to method m.
ResultsOf(m) == IF m = "getPilot" THEN {"pilotA", "pilotB"} ELSE {"success"}

ErrorCodes == {METHOD_NOT_FOUND, -32700}

(***************************************************************************)
(* Datagrams received on the facade's socket.  json is what the bytes are: *)
(* "object" (a JSON object), "nonobject" (valid JSON that is no object),   *)
(* "text" (UTF-8 text that is not JSON) or "badutf8" (bytes that are not   *)
(* UTF-8).  An absent method or result is "", an absent error is 0.        *)
(* for is the call whose datagram elicited the reply (0: unsolicited) and  *)
(* via the association it travels on.                                      *)
(***************************************************************************)
Datagram(j, m, r, e, k, t) ==
    [json |-> j, method |-> m, result |-> r, error |-> e, for |-> k, via |-> t]

NoDatagram == Datagram("", "", "", 0, 0, 0)

\* What a device can answer to a request with method m.
RepliesTo(m, k, t) ==
    { Datagram("object", m, r, 0, k, t) : r \in ResultsOf(m) }
      \cup { Datagram("object", m, "", 0, k, t) }
      \cup { Datagram("object", m, "", e, k, t) : e \in ErrorCodes }
      \cup { Datagram("object", "", "", e, k, t) : e \in ErrorCodes }
      \cup { Datagram(j, "", "", 0, k, t) : j \in {"nonobject", "text", "badutf8"} }

VARIABLES
    timing,            \* the patched or default FIRST_SEND_INTERVAL / TIMEOUT
    timeoutIsOSError,  \* asyncio.TimeoutError is a subclass of OSError (Python >= 3.11)
    pc,                \* where each call's coroutine is suspended
    op,                \* the operation of each call
    outcome,           \* how each call ended
    resp,              \* the response send() returned to the call
    transport,         \* wizlight.transport (0: None)
    open,              \* the datagram associations that are open
    created,           \* associations created so far
    lockHolder,        \* wizlight.lock (0: not locked)
    waiters,           \* the lock's queue of waiting calls
    response_method,   \* wizlight.response_method
    response_future,   \* wizlight.response_future: the call whose Future it is (0: None)
    futures,           \* the Future each send() created
    task,              \* the retransmission task of each call
    waitLeft,          \* time left on wait_for's timer (-1: not armed)
    waitOutcome,       \* what the try block of send() ended with
    elapsed,           \* time since the call started to wait
    wire,              \* <<call, association>>: the requests that went out to the device
    inflight,          \* <<call, association>>: replies on their way to the facade
    state,             \* wizlight.state ("None" or the cached pilot result)
    last_error,        \* WizHistory._last_error
    events,            \* replies, OS errors and async_close() calls so far
    timedOut,          \* per call: its wait was ended by wait_for's timer
    heard,             \* per call: the first unmatched datagram _on_response got
                       \* while the call was waiting
    cmd,               \* the command the application built: the operation, the
                       \* parameters supplied, and pilot_params or the ValueError
    pilot_state,       \* the result the device keeps and answers getPilot with
    matching,          \* two pilot states and what states_match() said of them
    subscriptions,     \* PushManager.subscriptions: the macs with a callback registered
    push_running,      \* PushManager.push_running
    push_transport,    \* PushManager.push_transport (0: None, else its socket)
    push_lock,         \* PushManager.lock: the task that holds it (-1: not locked)
    push_waiters,      \* the tasks waiting for PushManager.lock, in order
    sockets,           \* the listening sockets that are bound
    starting,          \* per facade: where its start_push() is suspended
    stops,             \* stop_if_no_subs() tasks created and not yet run
    lights,            \* per facade: push_running, push_cancel, state, last_push,
                       \* the keep-alive timers armed, its start_push() calls, and of
                       \* the last one the result and whether the manager was busy
                       \* when it began; the time left on each pending keep-alive
                       \* timer, the registration tasks created and not yet run,
                       \* what the last of them ended with, and what async_close()
                       \* raised
    pushlog,           \* the notifications so far, the last one and whom it reached,
                       \* and how often the listener was stopped
    budget,            \* start_push() and async_close() calls so far
    discovery_callback,\* the push manager has a discovery callback registered
    registry,          \* BulbRegistry.bulbs_by_mac: its values, in the order of the dict
    find,              \* the find_wizlights() call: where it is, its future, its
                       \* transport and how the connection was lost, the time left to
                       \* sleep, and what it returned or raised
    datagrams,         \* the datagrams the discovery socket has received, in order
    firmware,          \* the firmware of the device: what it answers to the
                       \* configuration requests
    bulbtype,          \* wizlight.bulbtype (<< >>: None, else << the BulbType >>)
    modelConfig,       \* wizlight.modelConfig
    extwhiteRange,     \* wizlight.extwhiteRange
    fanSpeedRange,     \* wizlight.fanSpeedRange
    resolving,         \* per get_bulbtype() call: where it is, its local
                       \* white_range and fan_speed_range, what it returned or raised
    sent,              \* the configuration requests handed to send(), in order, with
                       \* the call that made each and how it ended
    clock,             \* time.monotonic() in seconds, and of the updateState() calls
                       \* of the first facade: how many there were, how many
                       \* getPilot requests they sent,
                       \* and when the last one was and what it returned or
                       \* raised, and when the last syncPilot for it arrived
    converted          \* an RGB colour, what rgb2rgbcw made of it, and the hue and
                       \* saturation rgbcw2hs read back from that

vars == << timing, timeoutIsOSError, pc, op, outcome, resp, transport, open, created,
           lockHolder, waiters, response_method, response_future, futures, task,
           waitLeft, waitOutcome, elapsed, wire, inflight, state, last_error,
           events, timedOut, heard, cmd, pilot_state, matching, subscriptions,
           push_running, push_transport, push_lock, push_waiters, sockets, starting,
           stops, lights, pushlog, budget, discovery_callback, registry, find,
           datagrams, firmware, bulbtype, modelConfig, extwhiteRange, fanSpeedRange,
           resolving, sent, clock, converted >>

\* The device's stored pilot.
device == << pilot_state >>

\* What the operations of one facade on its own device leave alone.
\* The push manager and the facades subscribed to it.
push == << subscriptions, push_running, push_transport, push_lock, push_waiters,
           sockets, starting, stops, lights, pushlog, budget >>

\* What neither the operations of one facade nor the push listener touch.
discovery == << registry, find, datagrams >>
\* The capabilities of the device as the facade has resolved them.
capability == << firmware, bulbtype, modelConfig, extwhiteRange, fanSpeedRange,
                 resolving, sent >>
beyond == << discovery_callback, discovery, capability, clock, converted >>

rest == << device, matching, push, beyond >>

env == << timing, timeoutIsOSError, cmd >>
ghost == << events, timedOut, heard >>

NoTask == [st |-> "none", send |-> 0, send_wait |-> 0, left |-> -1, via |-> 0]
NoneHeard == [kind |-> "", error |-> 0]
NoCmd == [kind |-> "", args |-> << >>, ok |-> TRUE, params |-> << >>]
\* The pilot a device starts with: off, at 13 percent.
InitialPilot == [state |-> FALSE, dimming |-> 13]

NoFuture == [status |-> "none", value |-> NoDatagram, exc |-> ""]

\* Nothing has been compared yet.
NoMatching == [old |-> << >>, new |-> << >>, result |-> "None"]

\* The facades that use the push manager, each with a mac of its own; a
\* facade's mac stands for the facade.
Facades == 1..MaxFacades

\* PushManager.lock: not locked; the task that runs stop_if_no_subs().  The
\* task that runs start() for a facade is the facade.
NotLocked == -1
StopTask == 0

\* wizlight.state is None; a facade as wizlight.__init__ leaves it.
NoState == << >>
NEVER_TIME == -120
NewLight == [push_running |-> FALSE, push_cancel |-> FALSE, state |-> NoState,
             last_push |-> NEVER_TIME, keepalive |-> 0, calls |-> 0,
             result |-> "None", busy |-> FALSE, timers |-> << >>, tasks |-> 0,
             task_error |-> "", error |-> ""]

\* No notification has arrived.
NoPush == [n |-> 0, mac |-> 0, method |-> "", params |-> NoState, dispatched |-> {},
           invoked |-> {}, discovered |-> {}, halts |-> 0]

\* The get_bulbtype() calls; one that has not been made.
Resolvers == 1..MaxResolvers
NoCall == [pc |-> "idle", white_range |-> "None", fan_speed_range |-> "None",
           ret |-> << >>, error |-> ""]

\* The clock at the start; no updateState() was called and no notification
\* has reached the facade.
NoClock == [now |-> 0, updates |-> 0, polls |-> 0, at |-> 0, ret |-> NoState,
            error |-> "", notified |-> << >>]

\* No colour has been converted.
NoColour == [pc |-> "none", rgb |-> << 0, 0, 0 >>, out |-> << 0, 0, 0 >>, cw |-> 0,
             hue |-> << 2, 0 >>, saturation |-> 0]

\* find_wizlights() has not been called.
NoFind == [pc |-> "idle", future |-> "none", closed |-> FALSE, lost |-> "", left |-> 0,
           result |-> << >>, error |-> ""]

\* The facades, their device, the push manager and the comparison of states
\* as constructed.
Constructed ==
    /\ pc = [c \in Calls |-> "idle"]
    /\ op = [c \in Calls |-> ""]
    /\ outcome = [c \in Calls |-> ""]
    /\ resp = [c \in Calls |-> NoDatagram]
    /\ transport = 0
    /\ open = {}
    /\ created = 0
    /\ lockHolder = 0
    /\ waiters = << >>
    /\ response_method = ""
    /\ response_future = 0
    /\ futures = [c \in Calls |-> NoFuture]
    /\ task = [c \in Calls |-> NoTask]
    /\ waitLeft = [c \in Calls |-> -1]
    /\ waitOutcome = [c \in Calls |-> ""]
    /\ elapsed = [c \in Calls |-> 0]
    /\ wire = {}
    /\ inflight = {}
    /\ state = "None"
    /\ last_error = ""
    /\ events = 0
    /\ timedOut = [c \in Calls |-> FALSE]
    /\ heard = [c \in Calls |-> NoneHeard]
    /\ cmd = NoCmd
    /\ pilot_state = InitialPilot
    /\ subscriptions = {}
    /\ push_running = FALSE
    /\ push_transport = 0
    /\ push_lock = NotLocked
    /\ push_waiters = << >>
    /\ sockets = {}
    /\ starting = [f \in Facades |-> "idle"]
    /\ stops = 0
    /\ lights = [f \in Facades |-> NewLight]
    /\ pushlog = NoPush
    /\ budget = [starts |-> 0, closes |-> 0]
    /\ discovery_callback = FALSE
    /\ registry = << >>
    /\ find = NoFind
    /\ datagrams = << >>
    /\ bulbtype = << >>
    /\ modelConfig = "None"
    /\ extwhiteRange = "None"
    /\ fanSpeedRange = "None"
    /\ resolving = [c \in Resolvers |-> NoCall]
    /\ sent = << >>
    /\ clock = NoClock

Init ==
    /\ timing \in TimingConfigs
    /\ timeoutIsOSError \in BOOLEAN
    /\ Constructed
    /\ firmware = "new"
    /\ converted = NoColour
    /\ matching = NoMatching

Min(a, b) == IF a < b THEN a ELSE b

FutureDone(c) == futures[c].status \in {"result", "exception"}

\* A send() whose wait_for allows one more backoff wait than TIMEOUT.
TakeLockPatient(c, m, tr) ==
    /\ lockHolder' = c
    /\ response_method' = m
    /\ response_future' = c
    /\ futures' = [futures EXCEPT ![c] = [status |-> "pending", value |-> NoDatagram, exc |-> ""]]
    /\ task' = [task EXCEPT ![c] =
                  [st |-> "ready", send |-> 0, send_wait |-> timing.first, left |-> -1, via |-> tr]]
    /\ waitLeft' = [waitLeft EXCEPT ![c] = timing.timeout + MAX_BACKOFF]
    /\ pc' = [pc EXCEPT ![c] = "waiting"]

(***************************************************************************)
(* send(), from `async with self.lock` to the await of wait_for.  A free   *)
(* lock with no waiter is taken without suspending: the call stores its    *)
(* method and a new Future in the facade, creates the retransmission task  *)
(* with the association the facade holds at that moment (tr), and arms     *)
(* wait_for's timer.  Otherwise the call queues behind the lock.           *)
(***************************************************************************)
TakeLock(c, m, tr) ==
    /\ lockHolder' = c
    /\ response_method' = m
    /\ response_future' = c
    /\ futures' = [futures EXCEPT ![c] = [status |-> "pending", value |-> NoDatagram, exc |-> ""]]
    /\ task' = [task EXCEPT ![c] =
                  [st |-> "ready", send |-> 0, send_wait |-> timing.first, left |-> -1, via |-> tr]]
    /\ waitLeft' = [waitLeft EXCEPT ![c] = timing.timeout]
    /\ pc' = [pc EXCEPT ![c] = "waiting"]

\* A send() that does not wait for the lock.
EnterLockNoMutex(c, m, tr) ==
    TakeLock(c, m, tr) /\ waiters' = waiters

EnterLock(c, m, tr) ==
    IF lockHolder = 0 /\ waiters = << >>
    THEN TakeLock(c, m, tr) /\ waiters' = waiters
    ELSE /\ waiters' = Append(waiters, c)
         /\ pc' = [pc EXCEPT ![c] = "lock_wait"]
         /\ UNCHANGED << lockHolder, response_method, response_future, futures, task, waitLeft >>

(***************************************************************************)
(* send() up to its first suspension: _ensure_connection() returns at once *)
(* with an association and send() continues to the lock; without one it    *)
(* awaits create_datagram_endpoint.                                        *)
(***************************************************************************)
Send(c, m) ==
    IF transport # 0
    THEN EnterLock(c, m, transport)
    ELSE /\ pc' = [pc EXCEPT ![c] = "connecting"]
         /\ UNCHANGED << lockHolder, waiters, response_method, response_future,
                         futures, task, waitLeft >>

(***************************************************************************)
(* The application starts operation o as call c: updateState() or          *)
(* turn_off() goes straight into send().                                   *)
(***************************************************************************)
Invoke(c, o) ==
    /\ pc[c] = "idle"
    /\ \A b \in Calls : b < c => pc[b] # "idle"
    /\ op' = [op EXCEPT ![c] = o]
    /\ Send(c, MethodOf(o))
    /\ UNCHANGED << env, outcome, resp, transport, open, created, waitOutcome, elapsed,
                    wire, inflight, state, last_error, ghost >>

(***************************************************************************)
(* _ensure_connection() after the await: the new association is stored in  *)
(* the facade, whatever it held, and send() continues to the lock.         *)
(***************************************************************************)
Connected(c) ==
    /\ pc[c] = "connecting"
    /\ created' = created + 1
    /\ open' = open \cup {created + 1}
    /\ transport' = created + 1
    /\ EnterLock(c, MethodOf(op[c]), created + 1)
    /\ UNCHANGED << env, op, outcome, resp, waitOutcome, elapsed, wire, inflight, state,
                    last_error, ghost >>

(***************************************************************************)
(* The first waiter of a released lock resumes and takes it.               *)
(***************************************************************************)
LockAcquire(c) ==
    /\ pc[c] = "lock_wait"
    /\ lockHolder = 0
    /\ waiters # << >> /\ Head(waiters) = c
    /\ waiters' = Tail(waiters)
    /\ TakeLock(c, MethodOf(op[c]), transport)
    /\ UNCHANGED << env, op, outcome, resp, transport, open, created, waitOutcome, elapsed,
                    wire, inflight, state, last_error, ghost >>

\* A backoff that stays at the first interval.
BackoffFlat(send_wait) == send_wait

\* send_wait = min(send_wait * 2, MAX_BACKOFF)
Backoff(send_wait) == Min(send_wait * 2, MAX_BACKOFF)

\* A retransmission loop that looks at neither the association nor the Future.
ReturnsNever(t, c) == t.send = MAX_SEND_DATAGRAMS

\* for send in range(MAX_SEND_DATAGRAMS) is exhausted, or the test at the head
\* of the loop body returns: transport is None or transport.is_closing() or
\* response_future.done().
Returns(t, c) ==
    t.send = MAX_SEND_DATAGRAMS \/ t.via = 0 \/ t.via \notin open \/ FutureDone(c)

(***************************************************************************)
(* _send_udp_message_with_retry: one pass of the loop, entered when the    *)
(* task first runs or when its sleep has ended.  After a sleep the wait is *)
(* doubled up to MAX_BACKOFF.  The loop ends after MAX_SEND_DATAGRAMS      *)
(* passes, or when the association is None or closing or the Future done;  *)
(* otherwise the datagram is transmitted and the task sleeps send_wait.    *)
(***************************************************************************)
SendTaskStep(c) ==
    /\ \/ task[c].st = "ready"
       \/ task[c].st = "sleeping" /\ task[c].left = 0
    /\ LET t == task[c]
           w == IF t.st = "sleeping" THEN Backoff(t.send_wait) ELSE t.send_wait
       IN IF Returns(t, c)
          THEN /\ task' = [task EXCEPT ![c] = [t EXCEPT !.st = "done", !.left = -1, !.send_wait = w]]
               /\ wire' = wire
          ELSE /\ task' = [task EXCEPT ![c] =
                             [t EXCEPT !.st = "sleeping", !.send = t.send + 1,
                                       !.send_wait = w, !.left = w]]
               /\ wire' = wire \cup {<< c, t.via >>}
    /\ UNCHANGED << env, pc, op, outcome, resp, transport, open, created, lockHolder, waiters,
                    response_method, response_future, futures, waitLeft, waitOutcome,
                    elapsed, inflight, state, last_error, ghost >>

(***************************************************************************)
(* The event loop sleeps until the next timer, which it does only when no  *)
(* callback or task is ready to run.                                       *)
(***************************************************************************)
Runnable(c) ==
    \/ task[c].st \in {"ready", "cancelling"}
    \/ task[c].st = "sleeping" /\ task[c].left = 0
    \/ pc[c] = "waiting" /\ (FutureDone(c) \/ waitLeft[c] = 0)
    \/ pc[c] \in {"finally_yield", "connecting"}
    \/ pc[c] = "finally_await" /\ task[c].st = "done"
    \/ pc[c] = "lock_wait" /\ lockHolder = 0

Timers ==
    { task[c].left : c \in { x \in Calls : task[x].st = "sleeping" } }
      \cup { waitLeft[c] : c \in { x \in Calls : pc[x] = "waiting" } }

Tick ==
    /\ \A c \in Calls : ~Runnable(c)
    /\ Timers # {}
    /\ LET d == CHOOSE x \in Timers : \A y \in Timers : x <= y
       IN /\ task' = [c \in Calls |->
                        IF task[c].st = "sleeping"
                        THEN [task[c] EXCEPT !.left = task[c].left - d] ELSE task[c]]
          /\ waitLeft' = [c \in Calls |->
                            IF pc[c] = "waiting" THEN waitLeft[c] - d ELSE waitLeft[c]]
          /\ elapsed' = [c \in Calls |->
                           IF pc[c] = "waiting" THEN elapsed[c] + d ELSE elapsed[c]]
    /\ UNCHANGED << env, pc, op, outcome, resp, transport, open, created, lockHolder, waiters,
                    response_method, response_future, futures, waitOutcome, wire, inflight,
                    state, last_error, ghost >>

(***************************************************************************)
(* wait_for returns because the Future is done.  A result leaves the try   *)
(* block normally.  An OSError set by _on_error is caught by `except       *)
(* OSError` and re-raised as WizLightConnectionError; the                  *)
(* WizLightConnectionError set by _on_response for undecodable JSON is     *)
(* caught by neither clause and propagates.  The finally block then awaits *)
(* sleep(0).                                                               *)
(***************************************************************************)
WaitDone(c) ==
    /\ pc[c] = "waiting"
    /\ FutureDone(c)
    /\ waitOutcome' = [waitOutcome EXCEPT ![c] =
                         IF futures[c].status = "result" THEN "result"
                         ELSE "WizLightConnectionError"]
    /\ waitLeft' = [waitLeft EXCEPT ![c] = -1]
    /\ pc' = [pc EXCEPT ![c] = "finally_yield"]
    /\ UNCHANGED << env, op, outcome, resp, transport, open, created, lockHolder, waiters,
                    response_method, response_future, futures, task, elapsed, wire,
                    inflight, state, last_error, ghost >>

(***************************************************************************)
(* wait_for's timer ends the wait while the Future is pending: wait_for    *)
(* raises asyncio.TimeoutError.  The except clauses are tried in order:    *)
(* `except OSError` comes first and catches it when asyncio.TimeoutError   *)
(* is the builtin TimeoutError (a subclass of OSError), otherwise `except  *)
(* asyncio.TimeoutError` raises WizLightTimeOutError.                      *)
(***************************************************************************)
WaitTimeout(c) ==
    /\ pc[c] = "waiting"
    /\ waitLeft[c] = 0
    /\ ~FutureDone(c)
    /\ waitOutcome' = [waitOutcome EXCEPT ![c] =
                         IF timeoutIsOSError THEN "WizLightConnectionError"
                         ELSE "WizLightTimeOutError"]
    /\ waitLeft' = [waitLeft EXCEPT ![c] = -1]
    /\ pc' = [pc EXCEPT ![c] = "finally_yield"]
    /\ timedOut' = [timedOut EXCEPT ![c] = TRUE]
    /\ UNCHANGED << env, op, outcome, resp, transport, open, created, lockHolder, waiters,
                    response_method, response_future, futures, task, elapsed, wire,
                    inflight, state, last_error, events, heard >>

\* An updateState() that clears the cache whenever its request did not
\* bring a result, an exception included.
UpdateStateClearsOnError(o, out, r, old) ==
    IF o = "updateState"
    THEN IF out = "ok" /\ r.result # "" THEN r.result ELSE "None"
    ELSE old

\* wizlight.state after operation o whose send() ended with out and returned
\* response r: updateState() assigns only after send() returned, the parsed
\* result or None; turn_off() does not touch the cache.
UpdateStateCache(o, out, r, old) ==
    IF o = "updateState" /\ out = "ok"
    THEN IF r.result # "" THEN r.result ELSE "None"
    ELSE old

\* An end of send() that leaves the lock held.
CompleteKeepsLock(c) ==
    /\ lockHolder' = lockHolder
    /\ outcome' = [outcome EXCEPT ![c] = "ok"]
    /\ resp' = [resp EXCEPT ![c] = futures[c].value]
    /\ state' = state
    /\ pc' = [pc EXCEPT ![c] = "done"]
    /\ task' = [task EXCEPT ![c] = [NoTask EXCEPT !.st = "done", !.via = task[c].via]]
    /\ waitOutcome' = [waitOutcome EXCEPT ![c] = ""]
    /\ elapsed' = [elapsed EXCEPT ![c] = 0]
    /\ heard' = [heard EXCEPT ![c] = NoneHeard]

(***************************************************************************)
(* The end of send() and of the operation that called it, run without      *)
(* suspension once the finally block is through: the lock is released; a   *)
(* response with an error raises WizLightMethodNotFound for code -32601    *)
(* and WizLightConnectionError for any other code; otherwise the response  *)
(* is returned.  updateState() then caches the result of the response, or  *)
(* None when the response has no result; an exception leaves updateState() *)
(* before it assigns.                                                      *)
(***************************************************************************)
Complete(c) ==
    LET r == futures[c].value
        out == IF waitOutcome[c] # "result" THEN waitOutcome[c]
               ELSE IF r.error # 0
                    THEN IF r.error = METHOD_NOT_FOUND THEN "WizLightMethodNotFound"
                         ELSE "WizLightConnectionError"
                    ELSE "ok"
    IN /\ lockHolder' = 0
       /\ outcome' = [outcome EXCEPT ![c] = out]
       /\ resp' = [resp EXCEPT ![c] = IF out = "ok" THEN r ELSE NoDatagram]
       /\ state' = UpdateStateCache(op[c], out, r, state)
       /\ pc' = [pc EXCEPT ![c] = "done"]
       /\ task' = [task EXCEPT ![c] = [NoTask EXCEPT !.st = "done", !.via = task[c].via]]
       /\ waitOutcome' = [waitOutcome EXCEPT ![c] = ""]
       /\ elapsed' = [elapsed EXCEPT ![c] = 0]
       /\ heard' = [heard EXCEPT ![c] = NoneHeard]

\* A finally block that ends send() without cancelling the task.
FinallyResumeNoCancel(c) ==
    /\ pc[c] = "finally_yield"
    /\ Complete(c)
    /\ UNCHANGED << env, op, transport, open, created, waiters, response_method,
                    response_future, futures, waitLeft, wire, inflight, last_error,
                    events, timedOut >>

(***************************************************************************)
(* The finally block after sleep(0): a retransmission task that is not     *)
(* done is cancelled and awaited; with the task done send() completes.     *)
(***************************************************************************)
FinallyResume(c) ==
    /\ pc[c] = "finally_yield"
    /\ IF task[c].st # "done"
       THEN /\ task' = [task EXCEPT ![c] = [task[c] EXCEPT !.st = "cancelling", !.left = -1]]
            /\ pc' = [pc EXCEPT ![c] = "finally_await"]
            /\ UNCHANGED << lockHolder, outcome, resp, state, waitOutcome, elapsed, heard >>
       ELSE Complete(c)
    /\ UNCHANGED << env, op, transport, open, created, waiters, response_method,
                    response_future, futures, waitLeft, wire, inflight, last_error,
                    events, timedOut >>

\* The cancelled task receives CancelledError at its await and ends.
SendTaskCancelled(c) ==
    /\ task[c].st = "cancelling"
    /\ task' = [task EXCEPT ![c] = [task[c] EXCEPT !.st = "done"]]
    /\ UNCHANGED << env, pc, op, outcome, resp, transport, open, created, lockHolder, waiters,
                    response_method, response_future, futures, waitLeft, waitOutcome,
                    elapsed, wire, inflight, state, last_error, ghost >>

\* `await send_task` returns: send() completes.
FinallyDone(c) ==
    /\ pc[c] = "finally_await"
    /\ task[c].st = "done"
    /\ Complete(c)
    /\ UNCHANGED << env, op, transport, open, created, waiters, response_method,
                    response_future, futures, waitLeft, wire, inflight, last_error,
                    events, timedOut >>

\* An _on_response that does not compare the method.
OnResponseAnyMethod(d) ==
    IF response_future = 0 \/ FutureDone(response_future)
    THEN futures' = futures
    ELSE IF d.json = "text"
    THEN futures' = [futures EXCEPT ![response_future] =
                       [status |-> "exception", value |-> NoDatagram,
                        exc |-> "WizLightConnectionError"]]
    ELSE IF d.json = "object"
    THEN futures' = [futures EXCEPT ![response_future] =
                       [status |-> "result", value |-> d, exc |-> ""]]
    ELSE futures' = futures

(***************************************************************************)
(* _on_response for datagram d: nothing happens without a pending Future.  *)
(* message.decode() raises UnicodeDecodeError for bytes that are not       *)
(* UTF-8, and decoded.get raises AttributeError for JSON that is no        *)
(* object: neither is caught, the event loop logs the exception and the    *)
(* Future stays pending.  Text that is not JSON sets                       *)
(* WizLightConnectionError on the Future.  An object whose method is not   *)
(* response_method is ignored; one whose method matches becomes the        *)
(* Future's result.                                                        *)
(***************************************************************************)
OnResponse(d) ==
    IF response_future = 0 \/ FutureDone(response_future)
    THEN futures' = futures
    ELSE IF d.json = "text"
    THEN futures' = [futures EXCEPT ![response_future] =
                       [status |-> "exception", value |-> NoDatagram,
                        exc |-> "WizLightConnectionError"]]
    ELSE IF d.json = "object" /\ d.method = response_method
    THEN futures' = [futures EXCEPT ![response_future] =
                       [status |-> "result", value |-> d, exc |-> ""]]
    ELSE futures' = futures

\* What datagram d is to a waiting request with method m when it is neither
\* a message of that method nor text that fails to parse as JSON (NoneHeard):
\* a well-formed message of another method ("stray"), a failure response that
\* names no method ("failure", with its code), JSON that is no object
\* ("nonobject") or bytes that are not UTF-8 ("badutf8").
Unmatched(d, m) ==
    IF d.json = "text" THEN NoneHeard
    ELSE IF d.json # "object" THEN [kind |-> d.json, error |-> 0]
    ELSE IF d.method = m THEN NoneHeard
    ELSE IF d.method # "" THEN [kind |-> "stray", error |-> 0]
    ELSE IF d.error # 0 THEN [kind |-> "failure", error |-> d.error]
    ELSE NoneHeard

\* A reply w, with content d, reaches the facade's host: the association it
\* was sent to hands it to WizProtocol.datagram_received, a closed one receives
\* nothing.
Deliver(w, d) ==
    /\ w \in inflight
    /\ d \in RepliesTo(MethodOf(op[w[1]]), w[1], w[2])
    /\ inflight' = inflight \ {w}
    /\ IF d.via \in open THEN OnResponse(d) ELSE futures' = futures
    /\ heard' = IF /\ d.via \in open
                   /\ response_future # 0
                   /\ pc[response_future] = "waiting"
                   /\ futures[response_future].status = "pending"
                   /\ heard[response_future] = NoneHeard
                THEN [heard EXCEPT ![response_future] = Unmatched(d, response_method)]
                ELSE heard
    /\ UNCHANGED << env, pc, op, outcome, resp, transport, open, created, lockHolder, waiters,
                    response_method, response_future, task, waitLeft, waitOutcome, elapsed,
                    wire, state, last_error, events, timedOut >>

\* An _on_error that only records the error in the history.
ErrorReceivedHistoryOnly(t) ==
    /\ t \in open
    /\ events < MaxEvents
    /\ events' = events + 1
    /\ last_error' = "OSError"
    /\ UNCHANGED << env, pc, op, outcome, resp, transport, open, created, lockHolder, waiters,
                    response_method, response_future, futures, task, waitLeft, waitOutcome,
                    elapsed, wire, inflight, state, timedOut, heard >>

(***************************************************************************)
(* WizProtocol.error_received on an open association -> _on_error: the     *)
(* error is recorded in the history and set on a pending Future.           *)
(***************************************************************************)
ErrorReceived(t) ==
    /\ t \in open
    /\ events < MaxEvents
    /\ events' = events + 1
    /\ last_error' = "OSError"
    /\ IF response_future # 0 /\ ~FutureDone(response_future)
       THEN futures' = [futures EXCEPT ![response_future] =
                          [status |-> "exception", value |-> NoDatagram, exc |-> "OSError"]]
       ELSE futures' = futures
    /\ UNCHANGED << env, pc, op, outcome, resp, transport, open, created, lockHolder, waiters,
                    response_method, response_future, task, waitLeft, waitOutcome, elapsed,
                    wire, inflight, state, timedOut, heard >>

(***************************************************************************)
(* The environment: the device answers a request w = <<call, association>> *)
(* that went out to it; the reply is sent to the address the request came  *)
(* from and travels for any length of time (it may never be delivered).    *)
(* What the reply holds is only seen when it is delivered.                 *)
(***************************************************************************)
DeviceReply(w) ==
    /\ w \in wire
    /\ w \notin inflight
    /\ events < MaxEvents
    /\ events' = events + 1
    /\ inflight' = inflight \cup {w}
    /\ UNCHANGED << env, pc, op, outcome, resp, transport, open, created, lockHolder, waiters,
                    response_method, response_future, futures, task, waitLeft, waitOutcome,
                    elapsed, wire, state, last_error, timedOut, heard >>

(***************************************************************************)
(* _async_close() with an association: it is closed and forgotten.         *)
(***************************************************************************)
AsyncClose ==
    /\ events < MaxEvents
    /\ transport # 0
    /\ events' = events + 1
    /\ open' = open \ {transport}
    /\ transport' = 0
    /\ UNCHANGED << env, pc, op, outcome, resp, created, lockHolder, waiters,
                    response_method, response_future, futures, task, waitLeft, waitOutcome,
                    elapsed, wire, inflight, state, last_error, timedOut, heard >>

Next ==
    \/ \E c \in Calls, o \in Ops : Invoke(c, o) /\ UNCHANGED rest
    \/ \E c \in Calls : Connected(c) /\ UNCHANGED rest
    \/ \E c \in Calls : LockAcquire(c) /\ UNCHANGED rest
    \/ \E c \in Calls : SendTaskStep(c) /\ UNCHANGED rest
    \/ \E c \in Calls : WaitDone(c) /\ UNCHANGED rest
    \/ \E c \in Calls : WaitTimeout(c) /\ UNCHANGED rest
    \/ \E c \in Calls : FinallyResume(c) /\ UNCHANGED rest
    \/ \E c \in Calls : SendTaskCancelled(c) /\ UNCHANGED rest
    \/ \E c \in Calls : FinallyDone(c) /\ UNCHANGED rest
    \/ \E w \in inflight : \E d \in RepliesTo(MethodOf(op[w[1]]), w[1], w[2]) : Deliver(w, d) /\ UNCHANGED rest
    \/ \E t \in open : ErrorReceived(t) /\ UNCHANGED rest
    \/ \E w \in wire : DeviceReply(w) /\ UNCHANGED rest
    \/ AsyncClose /\ UNCHANGED rest
    \/ Tick /\ UNCHANGED rest

Spec == Init /\ [][Next]_vars

\* The event loop runs every coroutine and task that is ready and fires every
\* timer that is due; create_datagram_endpoint completes.  What the device
\* and the application do is left open.
Fairness ==
    /\ WF_vars(Tick /\ UNCHANGED rest)
    /\ \A c \in Calls :
          /\ WF_vars(Connected(c) /\ UNCHANGED rest)
          /\ WF_vars(LockAcquire(c) /\ UNCHANGED rest)
          /\ WF_vars(SendTaskStep(c) /\ UNCHANGED rest)
          /\ WF_vars(WaitDone(c) /\ UNCHANGED rest)
          /\ WF_vars(WaitTimeout(c) /\ UNCHANGED rest)
          /\ WF_vars(FinallyResume(c) /\ UNCHANGED rest)
          /\ WF_vars(SendTaskCancelled(c) /\ UNCHANGED rest)
          /\ WF_vars(FinallyDone(c) /\ UNCHANGED rest)

SpecLive == Init /\ [][Next]_vars /\ Fairness

(***************************************************************************)
(* The command builder.  A builder under construction is a record: ok is   *)
(* FALSE once a setter has raised ValueError, params is pilot_params.      *)
(* The parameters supplied to a constructor are a function from the names  *)
(* of the keyword arguments that are not None to their values.             *)
(***************************************************************************)
CWMAX == 128

SCENES == ((1..35) \ {19, 26}) \cup {1000}

NewBuilder == [ok |-> TRUE, params |-> << >>]

Put(b, k, v) == [b EXCEPT !.params = (k :> v) @@ b.params]

ValueError(b) == [ok |-> FALSE, params |-> << >>]

\* hex_to_percent: round(hex_value / 255 * 100).  No integer gives a tie, so
\* Python's round is the nearest integer, floor(x + 1/2).
hex_to_percent(hex_value) == (200 * hex_value + 255) \div 510

\* percent_to_hex: int(round(percent / 100 * 255)).  Python rounds a tie to
\* the even neighbour: 25.5 -> 26, 76.5 -> 76, 127.5 -> 128, 178.5 -> 178,
\* 229.5 -> 230.
percent_to_hex(percent) ==
    LET n == 255 * percent
        q == n \div 100
        r == n % 100
    IN IF r > 50 \/ (r = 50 /\ q % 2 = 1) THEN q + 1 ELSE q

Max(a, b) == IF a > b THEN a ELSE b

\* The validators: TRUE when the value passes, FALSE when they raise.
rgb_in_range_or_raise(rgb) ==
    \A i \in 1..3 : 0 <= rgb[i] /\ rgb[i] < 256

\* A speed check that has lost its lower limit.
ValidateSpeedNoFloor(speed) == speed <= 200

validate_speed_or_raise(speed) == 10 <= speed /\ speed <= 200

validate_ratio_or_raise(ratio) == 0 <= ratio /\ ratio <= 100

validate_fan_state_or_raise(fan_state) == 0 <= fan_state /\ fan_state <= 1

validate_fan_mode_or_raise(mode) == 1 <= mode /\ mode <= 2

validate_fan_speed_or_raise(speed, range) ==
    LET speed_range == IF range = "None" THEN 6 ELSE range
    IN 1 <= speed /\ speed <= speed_range

validate_fan_reverse_or_raise(reverse) == 0 <= reverse /\ reverse <= 1

(***************************************************************************)
(* rgb2rgbcw and hs2rgbcw on the colours the model supplies: black, white  *)
(* and the three primaries at full for rgb; saturation 0, or saturation    *)
(* 100 at hue 0, 120 or 240 for hs.  With saturation 0 trapezoid() returns *)
(* rgb (0, 0, 0) and cw = CWMAX; with saturation 1 along one basis vector  *)
(* it returns that primary at 255 and cw = 0.                              *)
(***************************************************************************)
rgb2rgbcw(rgb) ==
    IF rgb[1] = rgb[2] /\ rgb[2] = rgb[3]
    THEN << << 0, 0, 0 >>, CWMAX >>
    ELSE << [i \in 1..3 |-> IF rgb[i] > 0 THEN 255 ELSE 0], 0 >>

hs2rgbcw(hs) ==
    IF hs[2] = 0
    THEN << << 0, 0, 0 >>, CWMAX >>
    ELSE << [i \in 1..3 |-> IF hs[1] = 120 * (i - 1) THEN 255 ELSE 0], 0 >>

\* The setters of PilotBuilder; a builder that has raised stays as it is.
set_warm_white(b, value) ==
    IF ~b.ok THEN b
    ELSE IF ~(0 <= value /\ value < 256) THEN ValueError(b)
    ELSE Put(b, "w", value)

set_cold_white(b, value) ==
    IF ~b.ok THEN b
    ELSE IF ~(0 <= value /\ value < 256) THEN ValueError(b)
    ELSE Put(b, "c", value)

set_speed(b, value) ==
    IF ~b.ok THEN b
    ELSE IF ~validate_speed_or_raise(value) THEN ValueError(b)
    ELSE Put(b, "speed", value)

set_ratio(b, value) ==
    IF ~b.ok THEN b
    ELSE IF ~validate_ratio_or_raise(value) THEN ValueError(b)
    ELSE Put(b, "ratio", value)

set_scene(b, scene_id) ==
    IF ~b.ok THEN b
    ELSE IF scene_id \notin SCENES THEN ValueError(b)
    ELSE Put(b, "sceneId", scene_id)

PutRGB(b, rgb) == Put(Put(Put(b, "r", rgb[1]), "g", rgb[2]), "b", rgb[3])

set_rgbw(b, rgbw) ==
    IF ~b.ok THEN b
    ELSE IF ~rgb_in_range_or_raise(rgbw) THEN ValueError(b)
    ELSE set_warm_white(PutRGB(b, rgbw), rgbw[4])

set_rgbww(b, rgbww) ==
    IF ~b.ok THEN b
    ELSE IF ~rgb_in_range_or_raise(rgbww) THEN ValueError(b)
    ELSE set_warm_white(set_cold_white(PutRGB(b, rgbww), rgbww[4]), rgbww[5])

set_rgb(b, values) ==
    IF ~b.ok THEN b
    ELSE IF ~rgb_in_range_or_raise(values) THEN ValueError(b)
    ELSE LET out == rgb2rgbcw(values)
         IN set_warm_white(PutRGB(b, out[1]), out[2])

set_hs_color(b, values) ==
    IF ~b.ok THEN b
    ELSE LET out == hs2rgbcw(values)
         IN IF ~rgb_in_range_or_raise(out[1]) THEN ValueError(b)
            ELSE set_warm_white(PutRGB(b, out[1]), out[2])

\* A brightness setter without the floor of 10 percent.
SetBrightnessNoFloor(b, value) ==
    IF ~b.ok THEN b
    ELSE LET percent == hex_to_percent(value)
         IN IF percent > 101 THEN ValueError(b)
            ELSE Put(b, "dimming", percent)

set_brightness(b, value) ==
    IF ~b.ok THEN b
    ELSE LET percent == hex_to_percent(value)
         IN IF percent > 101 THEN ValueError(b)
            ELSE Put(b, "dimming", Max(10, percent))

set_colortemp(b, kelvin) ==
    IF ~b.ok THEN b
    ELSE Put(b, "temp", Min(10000, Max(1000, kelvin)))

\* The state parameter goes into the params as it is.
set_state(b, st) == Put(b, "state", st)

\* A colour selection that prefers rgbw to rgb.
SetColourRgbwFirst(b, a) ==
    IF "rgbw" \in DOMAIN a THEN set_rgbw(b, a["rgbw"])
    ELSE IF "rgb" \in DOMAIN a THEN set_rgb(b, a["rgb"])
    ELSE IF "rgbww" \in DOMAIN a THEN set_rgbww(b, a["rgbww"])
    ELSE IF "colortemp" \in DOMAIN a THEN set_colortemp(b, a["colortemp"])
    ELSE IF "hucolor" \in DOMAIN a THEN set_hs_color(b, a["hucolor"])
    ELSE b

\* The colour directive of PilotBuilder.__init__: the first one supplied, in
\* the order rgb, rgbw, rgbww, colortemp, hucolor.
set_colour(b, a) ==
    IF "rgb" \in DOMAIN a THEN set_rgb(b, a["rgb"])
    ELSE IF "rgbw" \in DOMAIN a THEN set_rgbw(b, a["rgbw"])
    ELSE IF "rgbww" \in DOMAIN a THEN set_rgbww(b, a["rgbww"])
    ELSE IF "colortemp" \in DOMAIN a THEN set_colortemp(b, a["colortemp"])
    ELSE IF "hucolor" \in DOMAIN a THEN set_hs_color(b, a["hucolor"])
    ELSE b

\* The setters of PilotBuilderEx.
set_fan_state(b, fan_state) ==
    IF ~b.ok THEN b
    ELSE IF ~validate_fan_state_or_raise(fan_state) THEN ValueError(b)
    ELSE Put(b, "fanState", fan_state)

set_fan_mode(b, fan_mode) ==
    IF ~b.ok THEN b
    ELSE IF ~validate_fan_mode_or_raise(fan_mode) THEN ValueError(b)
    ELSE Put(b, "fanMode", fan_mode)

set_fan_speed(b, fan_speed) ==
    IF ~b.ok THEN b
    ELSE IF ~validate_fan_speed_or_raise(fan_speed, fanSpeedRange) THEN ValueError(b)
    ELSE Put(b, "fanSpeed", fan_speed)

set_fan_reverse(b, fan_reverse) ==
    IF ~b.ok THEN b
    ELSE IF ~validate_fan_reverse_or_raise(fan_reverse) THEN ValueError(b)
    ELSE Put(b, "fanRevrs", fan_reverse)

\* self._set_<n>(value): the setter of the parameter n.
set_parameter(n, b, value) ==
    CASE n = "state" -> set_state(b, value)
      [] n = "speed" -> set_speed(b, value)
      [] n = "ratio" -> set_ratio(b, value)
      [] n = "scene" -> set_scene(b, value)
      [] n = "brightness" -> set_brightness(b, value)
      [] n = "warm_white" -> set_warm_white(b, value)
      [] n = "cold_white" -> set_cold_white(b, value)
      [] n = "fan_state" -> set_fan_state(b, value)
      [] n = "fan_mode" -> set_fan_mode(b, value)
      [] n = "fan_reverse" -> set_fan_reverse(b, value)
      [] n = "fan_speed" -> set_fan_speed(b, value)

\* `if value is not None: self._set_value(value)`: the setter is applied to
\* the builder when the parameter n was supplied.
IfSupplied(a, n, b) == IF n \in DOMAIN a THEN set_parameter(n, b, a[n]) ELSE b

\* PilotBuilder.__init__ with the parameters a.
PilotBuilder(a) ==
    LET b1 == IfSupplied(a, "state", NewBuilder)
        b2 == IfSupplied(a, "speed", b1)
        b3 == IfSupplied(a, "ratio", b2)
        b4 == IfSupplied(a, "scene", b3)
        b5 == IfSupplied(a, "brightness", b4)
        b6 == set_colour(b5, a)
        b7 == IfSupplied(a, "warm_white", b6)
    IN IfSupplied(a, "cold_white", b7)

\* PilotBuilderEx.__init__ with the parameters a.
PilotBuilderEx(a) ==
    LET b1 == PilotBuilder(a)
        b2 == IfSupplied(a, "fan_state", b1)
        b3 == IfSupplied(a, "fan_mode", b2)
        b4 == IfSupplied(a, "fan_reverse", b3)
    IN IfSupplied(a, "fan_speed", b4)

\* set_pilot_message(state), with state "None", "True" or "False": a state
\* that is not None is put into the params.
set_pilot_message(b, st) ==
    IF ~b.ok \/ st = "None" THEN b ELSE Put(b, "state", st = "True")

(***************************************************************************)
(* The operations that build a command, up to the message they hand to     *)
(* send(): turn_on(PilotBuilder(...)) and turn_on(PilotBuilderEx(...)),    *)
(* where the builder is constructed before turn_on() is entered,           *)
(* set_speed(), set_ratio() and fan_set_state().                           *)
(***************************************************************************)
BuildCommand(k, a) ==
    IF k = "turn_on" THEN set_pilot_message(PilotBuilderEx(a), "True")
    ELSE IF k = "fan_set_state" THEN set_pilot_message(PilotBuilderEx(a), "None")
    ELSE IF k = "set_speed" THEN set_speed(NewBuilder, a["speed"])
    ELSE set_ratio(NewBuilder, a["ratio"])

(***************************************************************************)
(* The parameters the application supplies: values at and next to the      *)
(* limits of each range, every brightness from -BrightnessBelow to         *)
(* MaxBrightness, and at most MaxArgs parameters in one command.           *)
(***************************************************************************)
MaxArgs == 2
BrightnessBelow == 3
MaxBrightness == 260

BuilderParams ==
    { "warm_white", "cold_white", "speed", "scene", "rgb", "rgbw", "rgbww", "hucolor",
      "brightness", "colortemp", "state", "ratio" }

FanParams == { "fan_state", "fan_mode", "fan_speed", "fan_reverse" }

Values(p) ==
    CASE p \in {"warm_white", "cold_white"} -> {-1, 0, 255, 256}
      [] p = "speed" -> {9, 10, 200, 201}
      [] p = "ratio" -> {-1, 0, 100, 101}
      [] p = "scene" -> {0, 1, 19, 35, 36, 1000}
      [] p = "rgb" -> { <<0, 0, 0>>, <<255, 0, 0>>, <<0, 255, 0>>, <<0, 0, 255>>,
                        <<255, 255, 255>>, <<300, 0, 0>>, <<0, -1, 0>>, <<0, 0, 256>> }
      [] p = "rgbw" -> { <<0, 0, 0, 0>>, <<255, 255, 255, 255>>, <<300, 0, 0, 0>>,
                         <<0, 0, 0, 256>>, <<0, 0, -1, 0>> }
      [] p = "rgbww" -> { <<0, 0, 0, 0, 0>>, <<255, 255, 255, 255, 255>>,
                          <<0, 256, 0, 0, 0>>, <<0, 0, 0, 256, 0>>, <<0, 0, 0, 0, -1>> }
      [] p = "hucolor" -> { <<0, 0>>, <<0, 100>>, <<120, 100>>, <<240, 100>> }
      [] p = "brightness" -> (0 - BrightnessBelow)..MaxBrightness
      [] p = "colortemp" -> {5, 1000, 2700, 10000, 20000}
      [] p = "state" -> BOOLEAN
      [] p \in {"fan_state", "fan_reverse"} -> {-1, 0, 1, 2}
      [] p = "fan_mode" -> {0, 1, 2, 3}
      [] p = "fan_speed" -> {0, 1, 6, 7}

\* The ways to supply at most n of the parameters P.
RECURSIVE ArgSets(_, _)
ArgSets(P, n) ==
    IF n = 0 THEN { << >> }
    ELSE LET fewer == ArgSets(P, n - 1)
         IN fewer \cup UNION { UNION { { (p :> v) @@ a : v \in Values(p) } :
                                        p \in P \ DOMAIN a } : a \in fewer }

CmdKinds == { "turn_on", "fan_set_state", "set_speed", "set_ratio" }

ArgsOf(k) ==
    IF k = "turn_on" THEN ArgSets(BuilderParams \cup FanParams, MaxArgs)
    ELSE IF k = "fan_set_state" THEN ArgSets(FanParams, MaxArgs)
    ELSE IF k = "set_speed" THEN { ("speed" :> v) : v \in Values("speed") }
    ELSE { ("ratio" :> v) : v \in Values("ratio") }

(***************************************************************************)
(* The application performs operation k with the parameters a.  A          *)
(* ValueError leaves the operation before send() is reached; otherwise the *)
(* message goes into send().                                               *)
(***************************************************************************)
CmdInvoke(k, a) ==
    /\ pc[1] = "idle"
    /\ cmd = NoCmd
    /\ LET b == BuildCommand(k, a)
       IN /\ cmd' = [kind |-> k, args |-> a, ok |-> b.ok, params |-> b.params]
          /\ op' = [op EXCEPT ![1] = k]
          /\ IF b.ok
             THEN Send(1, "setPilot") /\ outcome' = outcome
             ELSE /\ pc' = [pc EXCEPT ![1] = "done"]
                  /\ outcome' = [outcome EXCEPT ![1] = "ValueError"]
                  /\ UNCHANGED << lockHolder, waiters, response_method, response_future,
                                  futures, task, waitLeft >>
    /\ UNCHANGED << timing, timeoutIsOSError, resp, transport, open, created, waitOutcome,
                    elapsed, wire, inflight, state, last_error, ghost >>

\* One command sent to a device that does not answer.
CmdNext ==
    \/ cmd = NoCmd /\ \E k \in CmdKinds : \E a \in ArgsOf(k) : CmdInvoke(k, a) /\ UNCHANGED rest
    \/ \E c \in Calls : Connected(c) /\ UNCHANGED rest
    \/ \E c \in Calls : SendTaskStep(c) /\ UNCHANGED rest
    \/ \E c \in Calls : WaitTimeout(c) /\ UNCHANGED rest
    \/ \E c \in Calls : FinallyResume(c) /\ UNCHANGED rest
    \/ \E c \in Calls : SendTaskCancelled(c) /\ UNCHANGED rest
    \/ \E c \in Calls : FinallyDone(c) /\ UNCHANGED rest
    \/ Tick /\ UNCHANGED rest

SpecCmd == Init /\ [][CmdNext]_vars

(***************************************************************************)
(* A command read back from a device that stores what it is sent.  The     *)
(* device is the one of the test suite: setPilot writes every param into   *)
(* its stored result and getPilot answers with that result.  One step is a *)
(* whole exchange, the request and the reply that send() returns.          *)
(***************************************************************************)

\* The device's setPilot: each param replaces the stored field of its name.
setPilot(pilot, params) == params @@ pilot

\* PilotParser.get_brightness.
get_brightness(pilotResult) ==
    IF "dimming" \in DOMAIN pilotResult
    THEN percent_to_hex(pilotResult["dimming"])
    ELSE "None"

\* turn_on(PilotBuilder(brightness=b)) as call 1.
TurnOnBrightness(b) ==
    /\ pc[1] = "idle"
    /\ LET built == BuildCommand("turn_on", "brightness" :> b)
       IN /\ cmd' = [kind |-> "turn_on", args |-> "brightness" :> b,
                     ok |-> built.ok, params |-> built.params]
          /\ outcome' = [outcome EXCEPT ![1] = IF built.ok THEN "ok" ELSE "ValueError"]
          /\ pilot_state' = IF built.ok THEN setPilot(pilot_state, built.params)
                            ELSE pilot_state
    /\ pc' = [pc EXCEPT ![1] = "done"]
    /\ op' = [op EXCEPT ![1] = "turn_on"]
    /\ UNCHANGED << timing, timeoutIsOSError, resp, transport, open, created, lockHolder,
                    waiters, response_method, response_future, futures, task, waitLeft,
                    waitOutcome, elapsed, wire, inflight, state, last_error, ghost,
                    matching, push, beyond >>

\* updateState() as call 2: the cache becomes the result of getPilot.
UpdateStateReadback ==
    /\ pc[2] = "idle"
    /\ pc' = [pc EXCEPT ![2] = "done"]
    /\ op' = [op EXCEPT ![2] = "updateState"]
    /\ outcome' = [outcome EXCEPT ![2] = "ok"]
    /\ state' = pilot_state
    /\ UNCHANGED << timing, timeoutIsOSError, resp, transport, open, created, lockHolder,
                    waiters, response_method, response_future, futures, task, waitLeft,
                    waitOutcome, elapsed, wire, inflight, last_error, ghost, cmd,
                    pilot_state, matching, push, beyond >>

ReadbackNext ==
    \/ \E b \in Values("brightness") : TurnOnBrightness(b)
    \/ UpdateStateReadback

SpecReadback == Init /\ [][ReadbackNext]_vars

(***************************************************************************)
(* Pilot states and their comparison.  A pilot state is a function from    *)
(* the names of the fields it has to their values; the values are strings, *)
(* "None" being Python's None, which dict.get() gives for a missing field. *)
(***************************************************************************)
IGNORE_STATE_KEYS == { "mqttCd", "ts", "rssi" }
PIR_SOURCE == "pir"
WIZMOTE_BUTTON_MAP ==
    { "wfa1", "wfa2", "wfa3", "wfa8", "wfa9", "wfa16", "wfa17", "wfa18", "wfa19" }
ALWAYS_SEND_SRCS == { PIR_SOURCE } \cup WIZMOTE_BUTTON_MAP

\* dict.get(key).
Get(d, key) == IF key \in DOMAIN d THEN d[key] ELSE "None"

\* A states_match() that looks at the new source only.
StatesMatchNewSrcOnly(old, new) ==
    LET old_src == Get(old, "src")
        new_src == Get(new, "src")
    IN IF new_src # old_src /\ new_src \in ALWAYS_SEND_SRCS
       THEN FALSE
       ELSE \A key \in DOMAIN new :
                ~(key # "src" /\ Get(old, key) # new[key] /\ key \notin IGNORE_STATE_KEYS)

states_match(old, new) ==
    LET old_src == Get(old, "src")
        new_src == Get(new, "src")
    IN IF new_src # old_src
          /\ (new_src \in ALWAYS_SEND_SRCS \/ old_src \in ALWAYS_SEND_SRCS)
       THEN FALSE
       ELSE \A key \in DOMAIN new :
                ~(key # "src" /\ Get(old, key) # new[key] /\ key \notin IGNORE_STATE_KEYS)

\* The field key with value v; no field when v is "None".
Field(key, v) == IF v = "None" THEN << >> ELSE key :> v

\* The pilot states with a source from srcs, a signal strength from rssis
\* and a scene from scenes, each of them possibly missing.
PilotStates(srcs, rssis, scenes) ==
    { Field("src", s) @@ Field("rssi", r) @@ Field("sceneId", c) :
        s \in srcs \cup {"None"}, r \in rssis \cup {"None"}, c \in scenes \cup {"None"} }

\* The states compared: every always-notify source and two others.
MatchStates == PilotStates(ALWAYS_SEND_SRCS \cup {"udp", "hb"}, {"-60", "-70"}, {"1", "2"})

\* states_match(old, new) is called.
Match ==
    /\ matching.result = "None"
    /\ matching' = [matching EXCEPT
                       !.result = IF states_match(matching.old, matching.new)
                                  THEN "True" ELSE "False"]
    /\ UNCHANGED << timing, timeoutIsOSError, pc, op, outcome, resp, transport, open,
                    created, lockHolder, waiters, response_method, response_future,
                    futures, task, waitLeft, waitOutcome, elapsed, wire, inflight, state,
                    last_error, ghost, cmd, device, push, beyond >>

InitMatch ==
    /\ timing = [first |-> FIRST_SEND_INTERVAL, timeout |-> TIMEOUT]
    /\ timeoutIsOSError = FALSE
    /\ Constructed
    /\ firmware = "new"
    /\ converted = NoColour
    /\ matching \in [old : MatchStates, new : MatchStates, result : {"None"}]

MatchNext == Match

SpecMatch == InitMatch /\ [][MatchNext]_vars

(***************************************************************************)
(* Push updates.  The push manager is shared by the facades; start() and   *)
(* stop_if_no_subs() run under its lock, and start() is suspended once,    *)
(* in create_datagram_endpoint(), while it holds the lock.  A step is what *)
(* a coroutine or callback does between two suspensions.  The time         *)
(* last_push holds is the number of the notification that set it.          *)
(***************************************************************************)

\* What the facade-and-device part of the model consists of.
single == << timing, timeoutIsOSError, pc, op, outcome, resp, transport, open, created,
             lockHolder, waiters, response_method, response_future, futures, task,
             waitLeft, waitOutcome, elapsed, wire, inflight, state, last_error, ghost,
             cmd, device, matching >>

\* What start() meets: a source ip and a free port, no source ip
\* (get_source_ip() returns None), or a port in use (bind raises OSError).
BindOutcomes == { "ok", "noip", "inuse" }

\* The mac of facade m as the notifications carry it.
Mac(m) == ToString(m)

\* The pilot states the notifications for mac m carry: for the mac of a
\* facade a signal strength and a scene, each possibly missing; for a mac
\* that no facade has, the mac and the source.
PushStates(m) ==
    LET base == ("mac" :> Mac(m)) @@ ("src" :> "udp")
    IN IF m \in Facades
       THEN { base @@ p : p \in PilotStates({}, {"-60"}, {"1", "2"}) }
       ELSE { base }

\* `async with self.lock` is left: the lock goes to the first task waiting.
Released ==
    IF push_waiters = << >>
    THEN push_lock' = NotLocked /\ push_waiters' = push_waiters
    ELSE push_lock' = Head(push_waiters) /\ push_waiters' = Tail(push_waiters)

\* wizlight.register() on the facade light: with push_running it creates the
\* task that sends the registration and arms a timer that calls register()
\* again after PUSH_KEEP_ALIVE_INTERVAL; without, it does nothing.
Register(light) ==
    IF light.push_running
    THEN [light EXCEPT !.keepalive = @ + 1, !.tasks = @ + 1,
                       !.timers = Append(@, PUSH_KEEP_ALIVE_INTERVAL)]
    ELSE light

\* A start_push() that takes the listener to be running whatever start()
\* returned.
ReturnedIgnoringResult(L, f, ok) ==
    [L EXCEPT ![f] = Register([@ EXCEPT !.push_running = TRUE,
                                        !.result = IF ok THEN "True" ELSE "False"])]

\* start() has returned ok to start_push() of facade f: on True the facade
\* sets push_running and calls register(), which sends the registration and
\* arms the keep-alive timer.
Returned(L, f, ok) ==
    IF ok
    THEN [L EXCEPT ![f] = Register([@ EXCEPT !.push_running = TRUE, !.result = "True"])]
    ELSE [L EXCEPT ![f].result = "False"]

\* A start() that binds without looking at push_running.
StartBodyAlwaysBinds(f, e, L, granted) ==
    /\ sockets' = sockets \cup {f}
    /\ starting' = [starting EXCEPT ![f] = "endpoint"]
    /\ push_lock' = f
    /\ lights' = L
    /\ UNCHANGED << push_running, push_transport, push_waiters >>

\* The body of PushManager.start() for facade f, entered with the lock,
\* up to its return or its suspension in create_datagram_endpoint().
\* granted: the task had to wait for the lock.
StartBody(f, e, L, granted) ==
    IF push_running \/ e # "ok"
    THEN /\ lights' = Returned(L, f, push_running)
         /\ starting' = [starting EXCEPT ![f] = "idle"]
         /\ IF granted THEN Released ELSE UNCHANGED << push_lock, push_waiters >>
         /\ UNCHANGED << push_running, push_transport, sockets >>
    ELSE /\ sockets' = sockets \cup {f}
         /\ starting' = [starting EXCEPT ![f] = "endpoint"]
         /\ push_lock' = f
         /\ lights' = L
         /\ UNCHANGED << push_running, push_transport, push_waiters >>

\* wizlight.start_push(callback) of facade f up to its first suspension;
\* subs is the subscription map once push_manager.register(mac, callback)
\* has stored the callback under the mac of the facade.
StartPushWith(f, subs) ==
    /\ starting[f] = "idle"
    /\ budget.starts < MaxStarts
    /\ budget' = [budget EXCEPT !.starts = @ + 1]
    /\ subscriptions' = subs
    /\ LET L == [lights EXCEPT ![f].push_cancel = TRUE, ![f].calls = @ + 1,
                               ![f].result = "None",
                               ![f].busy = push_running \/ push_lock # NotLocked]
       IN IF push_lock = NotLocked
          THEN \E e \in BindOutcomes : StartBody(f, e, L, FALSE)
          ELSE /\ push_waiters' = Append(push_waiters, f)
               /\ starting' = [starting EXCEPT ![f] = "lock"]
               /\ lights' = L
               /\ UNCHANGED << push_lock, push_running, push_transport, sockets >>
    /\ UNCHANGED << stops, pushlog, single, beyond >>

\* start_push() of a facade with a mac of its own: its entry is added to the
\* map.
StartPush(f) == StartPushWith(f, subscriptions \cup {f})

\* start() of facade f gets the lock it waited for.
StartLockGranted(f) ==
    /\ starting[f] = "lock"
    /\ push_lock = f
    /\ \E e \in BindOutcomes : StartBody(f, e, lights, TRUE)
    /\ UNCHANGED << subscriptions, stops, pushlog, budget, single, beyond >>

\* create_datagram_endpoint() returns to start() of facade f, which sets
\* the transport, push_running and returns True.
EndpointDone(f) ==
    /\ starting[f] = "endpoint"
    /\ push_transport' = f
    /\ push_running' = TRUE
    /\ lights' = Returned(lights, f, TRUE)
    /\ starting' = [starting EXCEPT ![f] = "idle"]
    /\ Released
    /\ UNCHANGED << subscriptions, sockets, stops, pushlog, budget, single, beyond >>

\* wizlight._async_close() of facade f; push_cancel() removes the
\* subscription and creates the task that runs stop_if_no_subs().
ClosePush(f) ==
    /\ lights[f].push_cancel \/ lights[f].push_running
    /\ budget.closes < MaxCloses
    /\ budget' = [budget EXCEPT !.closes = @ + 1]
    /\ lights' = [lights EXCEPT ![f].push_running = FALSE, ![f].push_cancel = FALSE]
    /\ IF lights[f].push_cancel
       THEN subscriptions' = subscriptions \ {f} /\ stops' = stops + 1
       ELSE UNCHANGED << subscriptions, stops >>
    /\ UNCHANGED << push_running, push_transport, push_lock, push_waiters, sockets,
                    starting, pushlog, single, beyond >>

\* A stop_if_no_subs() that does not look at the subscriptions.
StopBodyWhateverSubs ==
    IF ~push_running
    THEN UNCHANGED << push_running, push_transport, sockets, pushlog >>
    ELSE /\ push_running' = FALSE
         /\ push_transport' = 0
         /\ sockets' = sockets \ {push_transport}
         /\ pushlog' = [pushlog EXCEPT !.halts = @ + 1]

\* A stop_if_no_subs() that leaves the listener as it is.
StopBodyNever == UNCHANGED << push_running, push_transport, sockets, pushlog >>

\* The body of stop_if_no_subs(), entered with the lock.
StopBody ==
    IF ~push_running \/ subscriptions # {}
    THEN UNCHANGED << push_running, push_transport, sockets, pushlog >>
    ELSE /\ push_running' = FALSE
         /\ push_transport' = 0
         /\ sockets' = sockets \ {push_transport}
         /\ pushlog' = [pushlog EXCEPT !.halts = @ + 1]

\* A task created by push_cancel() starts to run stop_if_no_subs().
StopTaskRun ==
    /\ stops > 0
    /\ stops' = stops - 1
    /\ IF push_lock = NotLocked
       THEN StopBody /\ UNCHANGED << push_lock, push_waiters >>
       ELSE /\ push_waiters' = Append(push_waiters, StopTask)
            /\ UNCHANGED << push_lock, push_running, push_transport, sockets, pushlog >>
    /\ UNCHANGED << subscriptions, starting, lights, budget, single, beyond >>

\* stop_if_no_subs() gets the lock it waited for.
StopLockGranted ==
    /\ push_lock = StopTask
    /\ StopBody
    /\ Released
    /\ UNCHANGED << subscriptions, starting, stops, lights, budget, single, beyond >>

\* A facade _on_push() that hands every notification to the callback.
OnPushAlways(light, params, n) ==
    [light |-> [light EXCEPT !.last_push = n, !.state = params], called |-> TRUE]

\* wizlight._on_push for the n-th notification, on the facade light: the
\* facade afterwards, and whether push_callback was called.
on_push(light, params, n) ==
    LET old_state == light.state
    IN IF old_state # NoState /\ states_match(old_state, params)
       THEN [light |-> [light EXCEPT !.last_push = n], called |-> FALSE]
       ELSE [light |-> [light EXCEPT !.last_push = n, !.state = params],
             called |-> TRUE]

\* A dispatch that hands the notification to every subscription.
SubscriptionToAll(m) == subscriptions

\* self.subscriptions.get(mac): the facades whose callback is called.
Subscription(m) == subscriptions \cap {m}

\* PushManager._on_push for a datagram that is JSON, received when the clock
\* reads now.  Anything but syncPilot is dropped; syncPilot is acknowledged
\* and handed to the callback registered for its mac, if there is one.
Dispatch(m, method, params, now) ==
    /\ push_transport # 0
    /\ pushlog.n < MaxPush
    /\ LET to == IF method = "syncPilot" THEN Subscription(m) ELSE {}
           got == [f \in Facades |-> on_push(lights[f], params, now)]
       IN /\ lights' = [f \in Facades |-> IF f \in to THEN got[f].light ELSE lights[f]]
          /\ pushlog' = [pushlog EXCEPT
                            !.n = @ + 1, !.mac = m, !.method = method, !.params = params,
                            !.dispatched = to,
                            !.invoked = { f \in to : got[f].called },
                            !.discovered = {}]
    /\ UNCHANGED << subscriptions, push_running, push_transport, push_lock,
                    push_waiters, sockets, starting, stops, budget, single >>

\* A datagram arrives at the listener.  Where the time between notifications
\* does not matter the clock is a logical one: it reads the number of the
\* notification.
Notification(m, method, params) ==
    /\ Dispatch(m, method, params, pushlog.n + 1)
    /\ UNCHANGED beyond

\* An _on_push() to which a datagram that is not JSON is fatal: it closes
\* the listener.
InvalidDatagramFatal ==
    /\ push_transport # 0
    /\ pushlog.n < MaxPush
    /\ pushlog' = [pushlog EXCEPT
                      !.n = @ + 1, !.mac = 0, !.method = "invalid", !.params = NoState,
                      !.dispatched = {}, !.invoked = {}, !.discovered = {}]
    /\ push_running' = FALSE
    /\ push_transport' = 0
    /\ sockets' = {}
    /\ UNCHANGED << subscriptions, push_lock, push_waiters, starting, stops, lights,
                    budget, single, beyond >>

\* A datagram that is not JSON arrives at the listener: json.loads raises
\* JSONDecodeError, PushManager._on_push logs it and returns.
InvalidDatagram ==
    /\ push_transport # 0
    /\ pushlog.n < MaxPush
    /\ pushlog' = [pushlog EXCEPT
                      !.n = @ + 1, !.mac = 0, !.method = "invalid", !.params = NoState,
                      !.dispatched = {}, !.invoked = {}, !.discovered = {}]
    /\ UNCHANGED << subscriptions, push_running, push_transport, push_lock,
                    push_waiters, sockets, starting, stops, lights, budget, single, beyond >>

InitPush ==
    /\ timing = [first |-> FIRST_SEND_INTERVAL, timeout |-> TIMEOUT]
    /\ timeoutIsOSError = FALSE
    /\ Constructed
    /\ firmware = "new"
    /\ converted = NoColour
    /\ matching = NoMatching

PushNext ==
    \/ \E f \in Facades : StartPush(f)
    \/ \E f \in Facades : StartLockGranted(f)
    \/ \E f \in Facades : EndpointDone(f)
    \/ \E f \in Facades : ClosePush(f)
    \/ StopTaskRun
    \/ StopLockGranted
    \/ \E m \in 0..MaxFacades : \E params \in PushStates(m) :
           Notification(m, "syncPilot", params)
    \/ \E m \in 0..MaxFacades : Notification(m, "firstBeat", "mac" :> Mac(m))
    \/ InvalidDatagram

SpecPush == InitPush /\ [][PushNext]_vars

\* The address a datagram of device m comes from.
Ip(m) == "192.168.0." \o ToString(m)

DiscoveredBulb(ip_address, mac_address) ==
    [ip_address |-> ip_address, mac_address |-> mac_address]

\* wizlight.set_discovery_callback(callback) of any facade: the push
\* manager keeps the callback, or none when callback is None.
set_discovery_callback(callback) ==
    /\ discovery_callback' = callback
    /\ UNCHANGED << push, single, discovery, capability, clock, converted >>

\* Push updates and passive discovery together.
PushDiscoveryNext ==
    \/ PushNext
    \/ \E callback \in BOOLEAN : set_discovery_callback(callback)

SpecPushDiscovery == InitPush /\ [][PushDiscoveryNext]_vars

\* The event loop runs every task that is ready: a task that waits for the
\* manager lock gets it once it is released, a suspended start() resumes,
\* and a task created by push_cancel() is started.
PushFairness ==
    /\ WF_vars(StopTaskRun)
    /\ WF_vars(StopLockGranted)
    /\ \A f \in Facades : WF_vars(StartLockGranted(f))
    /\ \A f \in Facades : WF_vars(EndpointDone(f))

SpecPushLive == InitPush /\ [][PushNext]_vars /\ PushFairness

(***************************************************************************)
(* Discovery: find_wizlights() and the BroadcastProtocol of its socket.     *)
(***************************************************************************)
DiscoveryMacs == {"d8a01199cf31", "d8a01199cf32"}
DiscoveryIps == {"1.3.4.2", "1.3.4.3"}

\* The datagrams that reach the discovery socket, by what datagram_received
\* looks at.  "reply" is a successful registration reply as to_wiz_json
\* writes it, {"method":"registration","env":"pro","result":{"mac":m,
\* "success":true}}; "spaced" is the same reply as json.dumps writes it, with
\* a space after each colon and comma; "refused" is a registration reply with
\* "success":false; "nomac" a reply with "success":true and no mac in its
\* result, as that of setPilot; "noise" any text without "success":true, as
\* the probe of another controller.
DiscoveryDatagrams ==
    [kind : {"reply", "spaced", "refused"}, ip : DiscoveryIps, mac : DiscoveryMacs]
    \cup [kind : {"nomac", "noise"}, ip : DiscoveryIps, mac : {""}]

\* `"success":true` in decoded_message: the text is looked for as it stands.
HasSuccess(d) == d.kind \in {"reply", "nomac"}

\* BulbRegistry.register: self.bulbs_by_mac[bulb.mac_address] = bulb.  A key
\* the dict holds keeps its place, a new key goes last.
register(reg, bulb) ==
    IF \E i \in 1..Len(reg) : reg[i].mac_address = bulb.mac_address
    THEN [i \in 1..Len(reg) |->
             IF reg[i].mac_address = bulb.mac_address THEN bulb ELSE reg[i]]
    ELSE Append(reg, bulb)

\* BulbRegistry.bulbs: list(self.bulbs_by_mac.values())
bulbs(reg) == reg

\* BroadcastProtocol.datagram_received: the registry afterwards.  For a
\* result without mac create_bulb_from_message raises KeyError and nothing
\* is registered.
datagram_received(reg, d) ==
    IF HasSuccess(d)
    THEN IF d.mac # "" THEN register(reg, DiscoveredBulb(d.ip, d.mac)) ELSE reg
    ELSE reg

\* find_wizlights(wait_time) up to its first suspension, in
\* create_datagram_endpoint.
find_wizlights(wait_time) ==
    /\ find.pc = "idle"
    /\ registry' = << >>
    /\ find' = [find EXCEPT !.pc = "endpoint", !.future = "pending", !.left = wait_time]
    /\ UNCHANGED << datagrams, single, push, discovery_callback, capability, clock, converted >>

\* create_datagram_endpoint returns, connection_made sends the first probe
\* and find_wizlights goes to sleep; or the port cannot be bound and
\* find_wizlights raises.
EndpointReady(ok) ==
    /\ find.pc = "endpoint"
    /\ find' = IF ok THEN [find EXCEPT !.pc = "sleeping"]
                     ELSE [find EXCEPT !.pc = "raised", !.error = "OSError"]
    /\ UNCHANGED << registry, datagrams, single, push, discovery_callback, capability, clock, converted >>

\* A datagram arrives while the socket is open.
DatagramReceived(d) ==
    /\ find.pc = "sleeping" /\ ~find.closed
    /\ Len(datagrams) < MaxDatagrams
    /\ datagrams' = Append(datagrams, d)
    /\ registry' = datagram_received(registry, d)
    /\ UNCHANGED << find, single, push, discovery_callback, capability, clock, converted >>

\* A connection_lost that completes the future with None whatever the cause.
ConnectionLostSwallows(exc) ==
    /\ find.pc \in {"sleeping", "awaiting"}
    /\ find.future = "pending"
    /\ IF exc = "None" THEN find.closed ELSE ~find.closed
    /\ find' = [find EXCEPT !.closed = TRUE, !.lost = exc, !.future = "None"]
    /\ UNCHANGED << registry, datagrams, single, push, discovery_callback, capability, clock, converted >>

\* BroadcastProtocol.connection_lost(exc): with None after transport.close(),
\* with the error when the transport fails while it is open.
connection_lost(exc) ==
    /\ find.pc \in {"sleeping", "awaiting"}
    /\ find.future = "pending"
    /\ IF exc = "None" THEN find.closed ELSE ~find.closed
    /\ find' = [find EXCEPT !.closed = TRUE, !.lost = exc, !.future = exc]
    /\ UNCHANGED << registry, datagrams, single, push, discovery_callback, capability, clock, converted >>

\* A second of asyncio.sleep(wait_time) passes.
SleepTick ==
    /\ find.pc = "sleeping" /\ find.left > 0
    /\ find' = [find EXCEPT !.left = @ - 1]
    /\ UNCHANGED << registry, datagrams, single, push, discovery_callback, capability, clock, converted >>

\* The sleep is over: transport.close(), then `await future`.
SleepDone ==
    /\ find.pc = "sleeping" /\ find.left = 0
    /\ find' = [find EXCEPT !.pc = "awaiting", !.closed = TRUE]
    /\ UNCHANGED << registry, datagrams, single, push, discovery_callback, capability, clock, converted >>

\* `await future` is over: find_wizlights returns registry.bulbs() or
\* raises the exception of the future.
FindResumes ==
    /\ find.pc = "awaiting" /\ find.future # "pending"
    /\ find' = IF find.future = "None"
               THEN [find EXCEPT !.pc = "returned", !.result = bulbs(registry)]
               ELSE [find EXCEPT !.pc = "raised", !.error = find.future]
    /\ UNCHANGED << registry, datagrams, single, push, discovery_callback, capability, clock, converted >>

DiscoveryNext ==
    \/ \E wait_time \in 1..MaxWait : find_wizlights(wait_time)
    \/ \E ok \in BOOLEAN : EndpointReady(ok)
    \/ \E d \in DiscoveryDatagrams : DatagramReceived(d)
    \/ connection_lost("None")
    \/ connection_lost("OSError")
    \/ SleepTick
    \/ SleepDone
    \/ FindResumes

SpecDiscovery == InitPush /\ [][DiscoveryNext]_vars

\* The event loop runs the timers that are due and the callbacks that are
\* ready: the endpoint is made, the sleep ends, connection_lost is called
\* after close(), and a task whose future is done resumes.
DiscoveryFairness ==
    /\ WF_vars(\E ok \in BOOLEAN : EndpointReady(ok))
    /\ WF_vars(SleepTick)
    /\ WF_vars(SleepDone)
    /\ WF_vars(connection_lost("None"))
    /\ WF_vars(FindResumes)

SpecDiscoveryLive == InitPush /\ [][DiscoveryNext]_vars /\ DiscoveryFairness

(***************************************************************************)
(* Capability resolution: wizlight.get_bulbtype() and the getters it calls. *)
(* A call runs from one suspension in send() to the next; send() serves the *)
(* requests in the order they were made, under the lock of the facade.      *)
(***************************************************************************)

\* A device with getModelConfig; one without (firmware before 1.22); one
\* whose getModelConfig reply has no result and whose user configuration
\* has no extRange; one whose module name is not known.
Firmwares == {"new", "old", "noresult", "unknown"}

\* What the device answers to a request, and what send() makes of it.
ConfigReply(method) ==
    CASE method = "getModelConfig" ->
             (CASE firmware \in {"new", "unknown"} -> "result"
                [] firmware = "old" -> "MethodNotFound"
                [] OTHER -> "noresult")
      [] OTHER -> "result"

\* How send() can end for a request of the resolution.
SendOutcomes(method) == {ConfigReply(method), "Timeout", "ConnectionError"}

\* PilotParser(resp["result"]).get_extended_white_range() of the model
\* configuration ("result") and of the user configuration ("user"):
\* cctRange, extRange or None.
get_extended_white_range(answer) ==
    CASE answer = "result" -> "cctRange"
      [] answer = "user" /\ firmware # "noresult" -> "extRange"
      [] OTHER -> "None"

\* PilotParser(resp["result"]).get_fan_speed_range(): the fanSpeed of the
\* configuration or None.
get_fan_speed_range(answer) ==
    IF answer = "result" /\ firmware = "new" THEN "6" ELSE "None"

\* BulbType.from_data: the type made of the module name, the white range,
\* the fan speed range and the white channels of the model configuration or
\* of drvConf.
from_data(module_name, white_range, fan_speed_range, model) ==
    [name |-> module_name, kelvin_range |-> white_range,
     fan_speed_range |-> fan_speed_range,
     white_channels |-> IF model = "result" THEN "nowc" ELSE "drvConf"]

\* The rest of get_bulbtype() once the ranges are there:
\* self.modelConfig["result"] raises KeyError for a model configuration
\* without result, from_data raises for a module name it does not know, else
\* bulbtype is set and returned.  S holds the fields of the facade (type,
\* model, ext, fan), the call (me) and the request it makes next (issue).
Finish(S) ==
    IF S.model = "noresult"
    THEN [S EXCEPT !.me.pc = "raised", !.me.error = "KeyError"]
    ELSE IF firmware = "unknown"
    THEN [S EXCEPT !.me.pc = "raised", !.me.error = "WizLightNotKnownBulb"]
    ELSE [S EXCEPT !.type = << from_data(firmware, S.me.white_range,
                                         S.me.fan_speed_range, S.model) >>,
                   !.me.pc = "returned",
                   !.me.ret = << from_data(firmware, S.me.white_range,
                                           S.me.fan_speed_range, S.model) >>]

\* getFanSpeedRange() with the answer answer: `if "result" in answer`, set
\* fanSpeedRange; return it.
FanResp(S, answer) ==
    IF answer \in {"result", "user"}
    THEN Finish([S EXCEPT !.fan = get_fan_speed_range(answer),
                          !.me.fan_speed_range = get_fan_speed_range(answer)])
    ELSE Finish([S EXCEPT !.me.fan_speed_range = S.fan])

\* getFanSpeedRange() after getModelConfig() has returned modelConfig.
FanAfterModel(S) ==
    IF S.model \in {"None", "noresult"}
    THEN [S EXCEPT !.me.pc = "fan_user", !.issue = "getUserConfig"]
    ELSE FanResp(S, S.model)

\* getFanSpeedRange() from its start; getModelConfig() sends only when
\* modelConfig is None.
getFanSpeedRange(S) ==
    IF S.fan # "None"
    THEN Finish([S EXCEPT !.me.fan_speed_range = S.fan])
    ELSE IF S.model = "None"
         THEN [S EXCEPT !.me.pc = "fan_model", !.issue = "getModelConfig"]
         ELSE FanAfterModel(S)

\* getExtendedWhiteRange() with the answer answer, then on to the fan range.
WhiteResp(S, answer) ==
    IF answer \in {"result", "user"}
    THEN getFanSpeedRange([S EXCEPT !.ext = get_extended_white_range(answer),
                                    !.me.white_range = get_extended_white_range(answer)])
    ELSE getFanSpeedRange([S EXCEPT !.me.white_range = S.ext])

\* getExtendedWhiteRange() after getModelConfig() has returned modelConfig:
\* `if answer is None or "result" not in answer`, getUserConfig is asked.
WhiteAfterModel(S) ==
    IF S.model \in {"None", "noresult"}
    THEN [S EXCEPT !.me.pc = "white_user", !.issue = "getUserConfig"]
    ELSE WhiteResp(S, S.model)

\* getExtendedWhiteRange() from its start.
getExtendedWhiteRange(S) ==
    IF S.ext # "None"
    THEN getFanSpeedRange([S EXCEPT !.me.white_range = S.ext])
    ELSE IF S.model = "None"
         THEN [S EXCEPT !.me.pc = "white_model", !.issue = "getModelConfig"]
         ELSE WhiteAfterModel(S)

\* The exception exc of send() leaves get_bulbtype().
Raised(S, exc) == [S EXCEPT !.me.pc = "raised", !.me.error = exc]

\* A getModelConfig() that suppresses every exception of send().
ModelConfigSuppressesAll(S, o) ==
    IF o \in {"result", "noresult"} THEN [S EXCEPT !.model = o] ELSE S

\* getModelConfig() when its send() has ended with o: the reply is kept in
\* modelConfig, MethodNotFound is suppressed, any other exception leaves.
getModelConfig(S, o) ==
    CASE o \in {"result", "noresult"} -> [S EXCEPT !.model = o]
      [] o = "MethodNotFound" -> S
      [] OTHER -> Raised(S, o)

\* The call resumes after its send() has ended with o and runs to its next
\* send() or to its end.
Resumed(S, o) ==
    CASE S.me.pc = "sys" ->
             IF o = "result" THEN getExtendedWhiteRange(S) ELSE Raised(S, o)
      [] S.me.pc = "white_model" ->
             IF getModelConfig(S, o).me.pc = "raised"
             THEN getModelConfig(S, o)
             ELSE WhiteAfterModel(getModelConfig(S, o))
      [] S.me.pc = "white_user" ->
             IF o = "result" THEN WhiteResp(S, "user") ELSE Raised(S, o)
      [] S.me.pc = "fan_model" ->
             IF getModelConfig(S, o).me.pc = "raised"
             THEN getModelConfig(S, o)
             ELSE FanAfterModel(getModelConfig(S, o))
      [] S.me.pc = "fan_user" ->
             IF o = "result" THEN FanResp(S, "user") ELSE Raised(S, o)

\* The fields of the facade as call c finds them.
Found(c) ==
    [type |-> bulbtype, model |-> modelConfig, ext |-> extwhiteRange,
     fan |-> fanSpeedRange, me |-> resolving[c], issue |-> ""]

\* Call c has run to S: the fields it has assigned and the request it has
\* handed to send(), after the requests log.
Assigned(c, S, log) ==
    /\ bulbtype' = S.type
    /\ modelConfig' = S.model
    /\ extwhiteRange' = S.ext
    /\ fanSpeedRange' = S.fan
    /\ resolving' = [resolving EXCEPT ![c] = S.me]
    /\ sent' = IF S.issue = ""
               THEN log
               ELSE Append(log, [call |-> c, method |-> S.issue, outcome |-> "pending"])
    /\ UNCHANGED << firmware, single, push, discovery_callback, discovery, clock, converted >>

\* A get_bulbtype() that resolves again although bulbtype is set.
GetBulbtypeAgain(c) ==
    /\ resolving[c].pc = "idle"
    /\ Assigned(c, [Found(c) EXCEPT !.me.pc = "sys", !.issue = "getSystemConfig"], sent)

\* get_bulbtype() of call c up to its first send(): bulbtype is returned if
\* it is set, else getBulbConfig() asks for the system configuration.
get_bulbtype(c) ==
    /\ resolving[c].pc = "idle"
    /\ IF bulbtype # << >>
       THEN Assigned(c, [Found(c) EXCEPT !.me.pc = "returned", !.me.ret = bulbtype], sent)
       ELSE Assigned(c, [Found(c) EXCEPT !.me.pc = "sys",
                                         !.issue = "getSystemConfig"], sent)

\* The requests of the resolution that send() has not completed.
Pending == { i \in 1..Len(sent) : sent[i].outcome = "pending" }

\* send() completes the oldest request with o and the call that made it
\* resumes.
SendCompletes(o) ==
    /\ Pending # {}
    /\ LET i == CHOOSE k \in Pending : \A j \in Pending : k <= j
       IN /\ o \in SendOutcomes(sent[i].method)
          /\ Assigned(sent[i].call, Resumed(Found(sent[i].call), o),
                      [sent EXCEPT ![i].outcome = o])

InitCapability ==
    /\ timing = [first |-> FIRST_SEND_INTERVAL, timeout |-> TIMEOUT]
    /\ timeoutIsOSError = FALSE
    /\ Constructed
    /\ firmware \in Firmwares
    /\ converted = NoColour
    /\ matching = NoMatching

CapabilityNext ==
    \/ \E c \in Resolvers : get_bulbtype(c)
    \/ \E o \in {"result", "noresult", "MethodNotFound", "Timeout", "ConnectionError"} :
           SendCompletes(o)

SpecCapability == InitCapability /\ [][CapabilityNext]_vars

(***************************************************************************)
(* updateState() of a facade that receives push updates.  The clock is     *)
(* time.monotonic() in whole seconds; the facade is the first one, whose   *)
(* start_push() calls and notifications are those of the push manager      *)
(* above.  The getPilot exchange of updateState() is one step here: the    *)
(* transport above is what runs it.                                        *)
(***************************************************************************)
MAX_TIME_BETWEEN_PUSH == PUSH_KEEP_ALIVE_INTERVAL + TIMEOUT

\* Seconds in the unit of the program constants, 10 ms.
Ticks(s) == 100 * s

\* An updateState() that asks the device every time.
PollAlways(last_push, now) == TRUE

\* self.last_push + MAX_TIME_BETWEEN_PUSH < time.monotonic()
PollNeeded(last_push, now) == Ticks(last_push) + MAX_TIME_BETWEEN_PUSH < Ticks(now)

\* How send() of getPilot can end: a response with a result, one without,
\* or an exception.
PollOutcomes == {"result", "noresult", "WizLightTimeOutError"}

\* The seconds at which the clock is read: the first ones, and those from
\* the end of the window that began at second 0.
Instants == { t \in 0..MaxClock : t <= 2 \/ Ticks(t) >= MAX_TIME_BETWEEN_PUSH }

\* Time passes, up to the next second at which the clock is read.
ClockTick ==
    /\ \E t \in Instants :
          /\ t > clock.now
          /\ \A u \in Instants : u > clock.now => t <= u
          /\ clock' = [clock EXCEPT !.now = t]
    /\ UNCHANGED << push, single, discovery_callback, discovery, capability, converted >>

\* A notification arrives at the listener when the clock reads clock.now.
NotificationAt(m, method, params) ==
    /\ Dispatch(m, method, params, clock.now)
    /\ clock' = [clock EXCEPT !.notified = IF m = 1 /\ method = "syncPilot"
                                           THEN << clock.now >> ELSE @]
    /\ UNCHANGED << discovery_callback, discovery, capability, converted >>

\* wizlight.updateState() of the first facade; the device answers getPilot
\* with result when send() ends with o = "result".
updateState(o, result) ==
    /\ clock.updates < MaxUpdates
    /\ IF PollNeeded(lights[1].last_push, clock.now)
       THEN /\ lights' = [lights EXCEPT ![1].state =
                              CASE o = "result" -> result
                                [] o = "noresult" -> NoState
                                [] OTHER -> @]
            /\ clock' = [clock EXCEPT
                             !.updates = @ + 1, !.polls = @ + 1, !.at = clock.now,
                             !.ret = CASE o = "result" -> result
                                       [] OTHER -> NoState,
                             !.error = IF o \in {"result", "noresult"} THEN "" ELSE o]
       ELSE /\ lights' = lights
            /\ clock' = [clock EXCEPT !.updates = @ + 1, !.at = clock.now,
                                      !.ret = lights[1].state, !.error = ""]
    /\ UNCHANGED << subscriptions, push_running, push_transport, push_lock,
                    push_waiters, sockets, starting, stops, pushlog, budget, single,
                    discovery_callback, discovery, capability, converted >>

PollNext ==
    \/ StartPush(1)
    \/ EndpointDone(1)
    \/ \E m \in Facades : \E params \in PushStates(m) :
           NotificationAt(m, "syncPilot", params)
    \/ NotificationAt(1, "firstBeat", "mac" :> Mac(1))
    \/ ClockTick
    \/ \E o \in PollOutcomes : \E result \in PushStates(1) : updateState(o, result)

SpecPoll == InitPush /\ [][PollNext]_vars

(***************************************************************************)
(* rgb2rgbcw, trapezoid and rgbcw2hs on any RGB colour (rgbcw.py, vec.py). *)
(* A vector of the hue plane is kept as << X, Y >>, which stands for       *)
(* (X / 2, Sqrt(3) * Y / 2): the basis vectors at 0, 120 and 240 degrees   *)
(* and every sum of whole multiples of them are pairs of integers then.    *)
(* Of a channel computed in floating point the integer part is what the    *)
(* exact value gives, except that a value that is exactly a whole number   *)
(* may come out a little below it and lose one when int() truncates it.    *)
(***************************************************************************)
BASIS == << << 2, 0 >>, << -1, 1 >>, << -1, -1 >> >>

\* 4 * vecDot(a, b)
Dot4(a, b) == a[1] * b[1] + 3 * a[2] * b[2]

\* 4 * vecLenSq(a): the square of twice the length
LenSq4(a) == Dot4(a, a)

\* 4 / Sqrt(3) times the z component of the cross product of a and b
Cross(a, b) == a[1] * b[2] - a[2] * b[1]

\* The linear combination of the basis vectors with the channels of rgb,
\* times 255 when rgb is in 0..255: vecMul(rgb, 1 / 255) is left out.
hueVecOf(rgb) == << 2 * rgb[1] - rgb[2] - rgb[3], rgb[2] - rgb[3] >>

\* The largest square root of a LenSq4 there is for channels in 0..255.
MaxRoot == 2 * 255

\* a / b <= Sqrt(Q), for a >= 0 and b > 0, without numbers beyond 32 bits.
FracLeqSqrt(a, b, Q) ==
    LET q == a \div b
        r == a % b
    IN IF q > MaxRoot \/ q * q > Q THEN FALSE
       ELSE IF (q + 1) * (q + 1) <= Q THEN TRUE
       ELSE 2 * q * b * r + r * r <= (Q - q * q) * b * b

\* a / b = Sqrt(Q)
FracEqSqrt(a, b, Q) ==
    LET q == a \div b
        r == a % b
    IN /\ q <= MaxRoot
       /\ q * q <= Q
       /\ Q < (q + 1) * (q + 1)
       /\ 2 * q * b * r + r * r = (Q - q * q) * b * b

\* int(x) of a float x whose exact value has the integer part n; exact tells
\* that the exact value is n itself.
vecInt(n, exact) == IF exact /\ n > 0 THEN {n - 1, n} ELSE {n}

\* int(p / d * Sqrt(Q)) for 0 <= p <= d: at most MaxRoot.
IntSqrt(p, d, Q) ==
    IF p = 0 THEN {0}
    ELSE LET n == CHOOSE k \in 0..MaxRoot :
                      FracLeqSqrt(k * d, p, Q) /\ ~FracLeqSqrt((k + 1) * d, p, Q)
         IN vecInt(n, FracEqSqrt(n * d, p, Q))

\* int(p / d * 255) for 0 <= p <= d; the largest coefficient, when it is
\* the only one, is maxCoeff / maxCoeff = 1.0 and gives 255.
IntRatio(p, d, alone) ==
    IF p = d /\ alone THEN {255}
    ELSE vecInt((255 * p) \div d, (255 * p) % d = 0)

RECURSIVE GCD(_, _)
GCD(a, b) == IF b = 0 THEN a ELSE GCD(b, a % b)

\* trapezoid's mask: the basis vectors less than 120 degrees - EPSILON from
\* the hue vector, vecDot(hueVec, vector) > cos(2 pi / 3 - EPSILON).  A sum
\* of whole multiples of the basis vectors is either at 120 degrees from a
\* basis vector exactly or more than EPSILON off.
Mask(h) ==
    { i \in 1..3 : Dot4(h, BASIS[i]) >= 0
                   \/ Dot4(h, BASIS[i]) * Dot4(h, BASIS[i]) < LenSq4(h) }

\* Coefficients that put each one into the place of the other.
CoefficientsSwapped(h, i, j) ==
    LET B == Cross(BASIS[i], BASIS[j])
        K0 == Cross(h, BASIS[j])
        K1 == (B * h[1] - K0 * BASIS[i][1]) * BASIS[j][1]
                + 3 * (B * h[2] - K0 * BASIS[i][2]) * BASIS[j][2]
    IN << K1 * B, 4 * K0 * B >>

\* The coefficients of hueVec h in the sub-basis i < j, both times 16 and
\* times the length of h: coeff0 = vecDot(hueVec, AB) / vecDot(subBasis[0],
\* AB) with AB perpendicular to subBasis[1], and coeff1 = vecDot(hueVec -
\* coeff0 * subBasis[0], subBasis[1]).
Coefficients(h, i, j) ==
    LET B == Cross(BASIS[i], BASIS[j])
        K0 == Cross(h, BASIS[j])
        K1 == (B * h[1] - K0 * BASIS[i][1]) * BASIS[j][1]
                + 3 * (B * h[2] - K0 * BASIS[i][2]) * BASIS[j][2]
    IN << 4 * K0 * B, K1 * B >>

\* The coefficients of the three channels in lowest terms: 1 for the one
\* basis vector of the mask, else those of the sub-basis in their places.
Scaled(h, mask) ==
    IF Cardinality(mask) = 1
    THEN [c \in 1..3 |-> IF c \in mask THEN 1 ELSE 0]
    ELSE LET i == CHOOSE c \in mask : \A d \in mask : c <= d
             j == CHOOSE c \in mask : \A d \in mask : d <= c
             P == Coefficients(h, i, j)
             g == GCD(P[1], P[2])
         IN [c \in 1..3 |-> IF c = i THEN P[1] \div g
                            ELSE IF c = j THEN P[2] \div g ELSE 0]

\* The channels rgb of trapezoid() for coefficients P whose largest is d, at
\* saturation Sqrt(Q) / MaxRoot: saturated when the saturation is at least
\* 0.5, else scaled by twice the saturation.
Channel(P, c, d, Q, saturated) ==
    IF saturated
    THEN IntRatio(P[c], d, \A e \in 1..3 : e # c => P[e] # d)
    ELSE IntSqrt(P[c], d, Q)

\* out_cw of trapezoid(): int(max(0, cw * CWMAX)) with cw = 1 - (saturation
\* - 0.5) * 2 when the saturation is at least 0.5, else cw = 1.
OutCw(Q, saturated) ==
    IF saturated
    THEN { Max(0, 2 * CWMAX - 1 - n) : n \in IntSqrt(CWMAX, 255, Q) }
    ELSE {CWMAX}

\* trapezoid(hueVec, saturation) for the hue vector h of a colour, of which
\* saturation is half the length divided by 255 and hueVec the direction:
\* the << rgb, out_cw >> it can return.
trapezoid(h) ==
    LET Q == LenSq4(h)
    IN IF Q = 0
       THEN { << << 0, 0, 0 >>, CWMAX >> }
       ELSE LET P == Scaled(h, Mask(h))
                d == Max(P[1], Max(P[2], P[3]))
            IN UNION { { << << r, g, b >>, cw >> :
                           r \in Channel(P, 1, d, Q, saturated),
                           g \in Channel(P, 2, d, Q, saturated),
                           b \in Channel(P, 3, d, Q, saturated),
                           cw \in OutCw(Q, saturated) } :
                       saturated \in { t \in BOOLEAN :
                                         IF t THEN Q >= 255 * 255 ELSE Q <= 255 * 255 } }

\* rgbcw2hs(rgb, cw): the hue as the vector of which atan2 takes the angle
\* (the angle of the null vector is 0, that of basis vector 0), and the
\* saturation in whole percent.
rgbcw2hs(rgb, cw) ==
    LET h == hueVecOf(rgb)
    IN [hue |-> IF h = << 0, 0 >> THEN BASIS[1] ELSE h,
        saturation |-> IF Min(cw, CWMAX) = CWMAX
                       THEN CHOOSE n \in IntSqrt(5, 51, LenSq4(h)) :
                                \A m \in IntSqrt(5, 51, LenSq4(h)) : m <= n
                       ELSE (100 * (2 * CWMAX - Min(cw, CWMAX))) \div (2 * CWMAX)]

\* The channel values of the colours converted.
Channels == {0, 1, 10, 20, 32, 64, 128, 140, 254, 255}

\* rgb2rgbcw(rgb) of the colour.
Rgb2Rgbcw ==
    /\ converted.pc = "rgb"
    /\ \E out \in trapezoid(hueVecOf(converted.rgb)) :
          converted' = [converted EXCEPT !.pc = "rgbcw", !.out = out[1], !.cw = out[2]]
    /\ UNCHANGED << single, push, discovery_callback, discovery, capability, clock >>

\* rgbcw2hs(*rgb2rgbcw(rgb))
Rgbcw2Hs ==
    /\ converted.pc = "rgbcw"
    /\ LET hs == rgbcw2hs(converted.out, converted.cw)
       IN converted' = [converted EXCEPT !.pc = "hs", !.hue = hs.hue,
                                         !.saturation = hs.saturation]
    /\ UNCHANGED << single, push, discovery_callback, discovery, capability, clock >>

InitColour ==
    /\ timing = [first |-> FIRST_SEND_INTERVAL, timeout |-> TIMEOUT]
    /\ timeoutIsOSError = FALSE
    /\ Constructed
    /\ firmware = "new"
    /\ matching = NoMatching
    /\ \E rgb \in Channels \X Channels \X Channels :
          converted = [NoColour EXCEPT !.pc = "rgb", !.rgb = rgb]

ColourNext == Rgb2Rgbcw \/ Rgbcw2Hs

SpecColour == InitColour /\ [][ColourNext]_vars

(***************************************************************************)
(* Keep-alive.  register() runs when start_push() has succeeded and each   *)
(* time a keep-alive timer fires; the timers are never cancelled.  The     *)
(* start_push() and async_close() calls are those of the push manager      *)
(* above; the clock advances KeepAliveStep seconds at a time, and only     *)
(* when no timer is due and no task is ready.                              *)
(***************************************************************************)

\* The pending keep-alive timers of facade f that are due.
Due(f) == { i \in DOMAIN lights[f].timers : lights[f].timers[i] = 0 }

\* The sequence without its i-th element.
Without(seq, i) == SubSeq(seq, 1, i - 1) \o SubSeq(seq, i + 1, Len(seq))

\* A keep-alive timer of facade f fires: register() runs.
TimerFires(f) ==
    /\ \E i \in Due(f) :
          lights' = [lights EXCEPT ![f] = Register([@ EXCEPT !.timers = Without(@, i)])]
    /\ UNCHANGED << subscriptions, push_running, push_transport, push_lock,
                    push_waiters, sockets, starting, stops, pushlog, budget, single,
                    beyond >>

\* A registration task of facade f runs _async_send_register(register_msg).
\* register_msg is the string to_wiz_json() made of the message, so the first
\* statement of send(), history.message(HISTORY_SEND, msg_dict), finds
\* "method" in it and raises TypeError at decoded["method"]: nothing is
\* connected or transmitted, _async_send_register catches only
\* WizLightTimeOutError and WizLightConnectionError, and the task ends with
\* the TypeError, which nobody awaits.
RegisterTaskRun(f) ==
    /\ lights[f].tasks > 0
    /\ lights' = [lights EXCEPT ![f].tasks = @ - 1, ![f].task_error = "TypeError"]
    /\ UNCHANGED << subscriptions, push_running, push_transport, push_lock,
                    push_waiters, sockets, starting, stops, pushlog, budget, single,
                    beyond >>

\* The event loop sleeps KeepAliveStep seconds.
KeepAliveTick ==
    /\ clock.now + KeepAliveStep <= MaxKeepAlive
    /\ stops = 0
    /\ \A f \in Facades :
          /\ lights[f].tasks = 0
          /\ \A i \in DOMAIN lights[f].timers : lights[f].timers[i] >= Ticks(KeepAliveStep)
    /\ lights' = [f \in Facades |->
                    [lights[f] EXCEPT !.timers = [i \in DOMAIN @ |-> @[i] - Ticks(KeepAliveStep)]]]
    /\ clock' = [clock EXCEPT !.now = @ + KeepAliveStep]
    /\ UNCHANGED << subscriptions, push_running, push_transport, push_lock,
                    push_waiters, sockets, starting, stops, pushlog, budget, single,
                    discovery_callback, discovery, capability, converted >>

KeepAliveNext ==
    \/ \E f \in Facades : StartPush(f)
    \/ \E f \in Facades : StartLockGranted(f)
    \/ \E f \in Facades : EndpointDone(f)
    \/ \E f \in Facades : ClosePush(f)
    \/ StopTaskRun
    \/ StopLockGranted
    \/ \E f \in Facades : TimerFires(f)
    \/ \E f \in Facades : RegisterTaskRun(f)
    \/ KeepAliveTick

SpecKeepAlive == InitPush /\ [][KeepAliveNext]_vars

(***************************************************************************)
(* Two facades of one device.  Both have the same mac, so the subscription *)
(* map has one key: subscriptions holds the facade whose callback is the   *)
(* value stored under it, or nothing when the key is absent.               *)
(***************************************************************************)

\* self.subscriptions[mac] = callback replaces what was stored under the mac.
StartPushShared(f) == StartPushWith(f, {f})

\* wizlight._async_close() of facade f.  _cancel() runs
\* `del self.subscriptions[mac]`, which removes the entry whoever stored it
\* and raises KeyError when the key is absent; the KeyError leaves
\* _async_close() before push_cancel is set to None and before the task for
\* stop_if_no_subs() is created.
ClosePushShared(f) ==
    /\ lights[f].push_cancel \/ lights[f].push_running
    /\ budget.closes < MaxCloses
    /\ budget' = [budget EXCEPT !.closes = @ + 1]
    /\ IF ~lights[f].push_cancel
       THEN /\ lights' = [lights EXCEPT ![f].push_running = FALSE]
            /\ UNCHANGED << subscriptions, stops >>
       ELSE IF subscriptions = {}
       THEN /\ lights' = [lights EXCEPT ![f].push_running = FALSE, ![f].error = "KeyError"]
            /\ UNCHANGED << subscriptions, stops >>
       ELSE /\ lights' = [lights EXCEPT ![f].push_running = FALSE, ![f].push_cancel = FALSE]
            /\ subscriptions' = {}
            /\ stops' = stops + 1
    /\ UNCHANGED << push_running, push_transport, push_lock, push_waiters, sockets,
                    starting, pushlog, single, beyond >>

SharedNext ==
    \/ \E f \in Facades : StartPushShared(f)
    \/ \E f \in Facades : StartLockGranted(f)
    \/ \E f \in Facades : EndpointDone(f)
    \/ \E f \in Facades : ClosePushShared(f)
    \/ StopTaskRun
    \/ StopLockGranted

SpecShared == InitPush /\ [][SharedNext]_vars

(***************************************************************************)
(* set_state(): the cache of a facade, the builder the application hands   *)
(* in, and the setState message that goes to send().  The cache is         *)
(* lights[1].state; one step is a whole call.                              *)
(***************************************************************************)

\* The results of getPilot a device reports: switched on, switched off, and
\* without a state field.
ReportedPilots ==
    { ("state" :> TRUE) @@ ("dimming" :> 13),
      ("state" :> FALSE) @@ ("dimming" :> 13),
      ("dimming" :> 13) }

\* wizlight.status: None without a cached state, else PilotParser.get_state(),
\* which is None when the result has no state field.
status(cached) ==
    IF cached = NoState THEN "None"
    ELSE IF "state" \in DOMAIN cached
         THEN (IF cached["state"] THEN "True" ELSE "False")
         ELSE "None"

\* Python's bool() of an Optional[bool]: bool(None) is False.
bool(v) == IF v = "True" THEN "True" ELSE "False"

\* PilotBuilder.set_state_message(state): a state that is not None is put into
\* the params.
set_state_message(b, st) ==
    IF ~b.ok \/ st = "None" THEN b ELSE Put(b, "state", st = "True")

\* updateState() as call 2: the cache becomes the result p of getPilot.
UpdateStateReports(p) ==
    /\ pc[2] = "idle"
    /\ pc' = [pc EXCEPT ![2] = "done"]
    /\ op' = [op EXCEPT ![2] = "updateState"]
    /\ outcome' = [outcome EXCEPT ![2] = "ok"]
    /\ lights' = [lights EXCEPT ![1].state = p]
    /\ UNCHANGED << timing, timeoutIsOSError, resp, transport, open, created, lockHolder,
                    waiters, response_method, response_future, futures, task, waitLeft,
                    waitOutcome, elapsed, wire, inflight, state, last_error, ghost, cmd,
                    pilot_state, matching, subscriptions, push_running, push_transport,
                    push_lock, push_waiters, sockets, starting, stops, pushlog, budget,
                    beyond >>

\* set_state(PilotBuilder(a)) as call 1: a builder that raised ValueError never
\* reaches set_state(); otherwise set_state_message(bool(self.status)) is the
\* message handed to send().
SetState(a) ==
    /\ pc[1] = "idle"
    /\ LET built == set_state_message(PilotBuilder(a), bool(status(lights[1].state)))
       IN /\ cmd' = [kind |-> "set_state", args |-> a, ok |-> built.ok,
                     params |-> built.params]
          /\ outcome' = [outcome EXCEPT ![1] = IF built.ok THEN "ok" ELSE "ValueError"]
    /\ pc' = [pc EXCEPT ![1] = "done"]
    /\ op' = [op EXCEPT ![1] = "set_state"]
    /\ UNCHANGED << timing, timeoutIsOSError, resp, transport, open, created, lockHolder,
                    waiters, response_method, response_future, futures, task, waitLeft,
                    waitOutcome, elapsed, wire, inflight, state, last_error, ghost,
                    pilot_state, matching, subscriptions, push_running, push_transport,
                    push_lock, push_waiters, sockets, starting, stops, lights, pushlog,
                    budget, beyond >>

SetStateNext ==
    \/ \E p \in ReportedPilots : UpdateStateReports(p)
    \/ \E a \in ArgSets(BuilderParams, MaxArgs) : SetState(a)

InitSetState ==
    /\ timing = [first |-> FIRST_SEND_INTERVAL, timeout |-> TIMEOUT]
    /\ timeoutIsOSError = FALSE
    /\ Constructed
    /\ firmware = "new"
    /\ converted = NoColour
    /\ matching = NoMatching

SpecSetState == InitSetState /\ [][SetStateNext]_vars

(***************************************************************************)
(* Properties of the request/response transport.                           *)
(***************************************************************************)

\* Call c has transmitted a datagram and has not completed.
InFlight(c) == pc[c] \notin {"idle", "done"} /\ task[c].send > 0

\* Call c completes in this step.
Completes(c) == pc[c] # "done" /\ pc'[c] = "done"

\* C1: at most one request is in flight at a time.  No two calls are at once
\* between their first transmission and their completion, and while the lock
\* is held response_method and response_future are those of its holder.
C1_OneRequestInFlight ==
    /\ \A j, k \in Calls : InFlight(j) /\ InFlight(k) => j = k
    /\ lockHolder # 0 =>
          /\ response_future = lockHolder
          /\ response_method = MethodOf(op[lockHolder])

\* A second call queues behind the lock while the first one, having
\* transmitted, waits for its reply.
C1_Witness ==
    \E j, k \in Calls : j # k /\ pc[j] = "waiting" /\ task[j].send > 0 /\ pc[k] = "lock_wait"

\* C2: a send() whose wait was ended by the deadline with no matching
\* datagram received fails with WizLightTimeOutError and no other error.
C2_TimeoutRaisesTimeOutError ==
    \A c \in Calls : pc[c] = "done" /\ timedOut[c] => outcome[c] = "WizLightTimeOutError"

\* C3: the response send() returns to a call is a reply the device produced
\* to a datagram of that call, never one elicited by an earlier call.
C3_ResponseIsOwnReply ==
    \A c \in Calls : outcome[c] = "ok" => resp[c].for = c

\* C4: a well-formed datagram of another method received while a request
\* waits does not complete it: the request is still pending, the
\* retransmission task and the deadline are as they were, and the cached
\* state is unchanged.
C4_OtherMethodIgnored ==
    [][\A c \in Calls :
          heard[c] = NoneHeard /\ heard'[c].kind = "stray" =>
              /\ futures'[c].status = "pending"
              /\ pc'[c] = "waiting"
              /\ task' = task
              /\ waitLeft' = waitLeft
              /\ state' = state]_vars

\* A waiting request has received a message of another method and is still
\* pending, its retransmission task asleep until the next transmission.
C4_Witness ==
    \E c \in Calls :
        /\ heard[c].kind = "stray"
        /\ pc[c] = "waiting"
        /\ futures[c].status = "pending"
        /\ task[c].st = "sleeping"

\* The error code of the failure response call c got while it waited: the
\* response wait_for returned, or a failure response without a method field
\* (0: no failure response).
FailureCode(c) ==
    IF waitOutcome[c] = "result" THEN futures[c].value.error
    ELSE IF heard[c].kind = "failure" THEN heard[c].error
    ELSE 0

\* C5: a call whose reply is a failure response, with or without a method
\* field, ends with WizLightMethodNotFound when the code is -32601 and with
\* WizLightConnectionError for any other code.
C5_FailureResponseRaises ==
    [][\A c \in Calls :
          Completes(c) /\ FailureCode(c) # 0 =>
              outcome'[c] = IF FailureCode(c) = METHOD_NOT_FOUND
                            THEN "WizLightMethodNotFound"
                            ELSE "WizLightConnectionError"]_vars

\* A socket error was set on the Future of call c while it waited.
C6_Failed(c) == futures[c].exc = "OSError" /\ ~timedOut[c]

\* This step is _on_error: an event that is neither a reply nor a close.
C6_ErrorStep == events' # events /\ inflight' = inflight /\ open' = open

\* C6: an OS-level socket error reported while a request waits is set on
\* its Future; from then on no time passes for the call and it transmits
\* nothing more, and it ends with WizLightConnectionError.  An error
\* reported while no call holds the lock changes nothing but the
\* history, and every WizLightConnectionError has its cause in the call
\* that raised it.
C6_SocketErrorFailsRequest ==
    /\ [](\A c \in Calls :
            /\ pc[c] = "done" /\ C6_Failed(c) => outcome[c] = "WizLightConnectionError"
            /\ outcome[c] = "WizLightConnectionError" =>
                  \/ futures[c].status = "exception"
                  \/ futures[c].value.error \notin {0, METHOD_NOT_FOUND}
                  \/ timedOut[c] /\ timeoutIsOSError)
    /\ [][/\ \A c \in Calls :
               /\ C6_ErrorStep /\ response_future = c /\ pc[c] = "waiting"
                    /\ futures[c].status = "pending" => futures'[c].exc = "OSError"
               /\ C6_Failed(c) /\ pc[c] # "done" =>
                     /\ elapsed'[c] <= elapsed[c]
                     /\ task'[c].send <= task[c].send
          /\ C6_ErrorStep /\ lockHolder = 0 =>
               /\ pc' = pc /\ outcome' = outcome /\ task' = task /\ state' = state
               /\ \A c \in Calls : futures'[c] # futures[c] => pc[c] = "done"]_vars

\* A call has ended with WizLightConnectionError because of a socket error
\* reported while it waited, before its deadline.
C6_Witness ==
    \E c \in Calls :
        /\ pc[c] = "done"
        /\ C6_Failed(c)
        /\ outcome[c] = "WizLightConnectionError"
        /\ ~timeoutIsOSError

\* C7: a datagram that is not valid JSON (text that does not parse, or
\* bytes that are not UTF-8), received while a request waits, makes that
\* call end with WizLightConnectionError.
C7_NonJsonFailsRequest ==
    [][\A c \in Calls :
          /\ Completes(c)
          /\ \/ heard[c].kind = "badutf8"
             \/ waitOutcome[c] = "WizLightConnectionError"
                  /\ futures[c].exc = "WizLightConnectionError"
          => outcome'[c] = "WizLightConnectionError"]_vars

\* C8 as stated: the cached state changes only when an updateState()
\* returns a response that contains a result.
C8_CacheChangesOnlyOnResult ==
    [][state' # state =>
          \E c \in Calls :
              /\ Completes(c)
              /\ op[c] = "updateState"
              /\ outcome'[c] = "ok"
              /\ resp'[c].result # ""
              /\ state' = resp'[c].result]_vars

\* C8: the cached state changes only when the send() of an updateState()
\* returned a response: to the response's result, or to None when the
\* response has no result.  A call that ends in an exception leaves it as
\* it was.
C8_CacheChangesOnlyOnResponse ==
    [][/\ state' # state =>
            \E c \in Calls :
                /\ Completes(c)
                /\ op[c] = "updateState"
                /\ outcome'[c] = "ok"
                /\ state' = IF resp'[c].result # "" THEN resp'[c].result ELSE "None"
       /\ \A c \in Calls :
            Completes(c) /\ op[c] = "updateState" /\ outcome'[c] = "ok"
               /\ resp'[c].result = "" => state' = "None"]_vars

\* An updateState() has ended in an exception with a state cached before it.
C8_Witness ==
    \E c \in Calls :
        /\ pc[c] = "done"
        /\ op[c] = "updateState"
        /\ outcome[c] \in {"WizLightTimeOutError", "WizLightConnectionError",
                           "WizLightMethodNotFound"}
        /\ state # "None"

(***************************************************************************)
(* Properties of the command builder.                                      *)
(***************************************************************************)

\* Value v of parameter p is outside the range the interface gives for it.
OutOfRange(p, v) ==
    CASE p \in {"warm_white", "cold_white"} -> ~(0 <= v /\ v < 256)
      [] p = "rgb" -> \E i \in 1..3 : ~(0 <= v[i] /\ v[i] < 256)
      [] p = "rgbw" -> \E i \in 1..4 : ~(0 <= v[i] /\ v[i] < 256)
      [] p = "rgbww" -> \E i \in 1..5 : ~(0 <= v[i] /\ v[i] < 256)
      [] p = "speed" -> ~(10 <= v /\ v <= 200)
      [] p = "ratio" -> ~(0 <= v /\ v <= 100)
      [] p = "scene" -> v \notin SCENES
      [] p \in {"fan_state", "fan_reverse"} -> v \notin {0, 1}
      [] p = "fan_mode" -> v \notin {1, 2}
      [] p = "fan_speed" -> v \notin 1..6
      [] OTHER -> FALSE

\* The supplied parameters the builder applies: of the colour directives
\* only the first one supplied in the order rgb, rgbw, rgbww, colortemp,
\* hucolor.
Applied(a) ==
    LET colour == << "rgb", "rgbw", "rgbww", "colortemp", "hucolor" >>
        shadowed == { colour[i] : i \in { j \in 1..5 :
                                          \E h \in 1..(j - 1) : colour[h] \in DOMAIN a } }
    IN DOMAIN a \ shadowed

\* The operation ended with ValueError before any I/O: no association was
\* created, no task was started and no datagram went out.
RaisedBeforeIO ==
    /\ pc[1] = "done"
    /\ outcome[1] = "ValueError"
    /\ created = 0 /\ transport = 0 /\ open = {}
    /\ wire = {}
    /\ task[1] = NoTask

\* C9 as stated: a supplied parameter outside its valid range makes the
\* operation raise ValueError, with no transport created and no datagram
\* transmitted.
C9_OutOfRangeRaises ==
    cmd.kind # "" /\ (\E p \in DOMAIN cmd.args : OutOfRange(p, cmd.args[p]))
        => RaisedBeforeIO

\* C9: a parameter outside its valid range that the builder applies makes
\* the operation raise ValueError, with no transport created and no
\* datagram transmitted; a colour directive shadowed by one of higher
\* priority is not looked at.
C9_AppliedOutOfRangeRaises ==
    cmd.kind # "" /\ (\E p \in Applied(cmd.args) : OutOfRange(p, cmd.args[p]))
        => RaisedBeforeIO

\* An operation was given a red of 300 and raised before any I/O.
C9_Witness ==
    /\ cmd.kind = "turn_on"
    /\ "rgb" \in DOMAIN cmd.args
    /\ cmd.args["rgb"] = << 300, 0, 0 >>
    /\ RaisedBeforeIO

\* C10: PilotBuilder(brightness=b) raises ValueError or gives a dimming
\* from 10 to 100; it raises whenever round(b / 255 * 100) exceeds 100, and
\* gives dimming 10 whenever that percentage is below 10.
C10_DimmingInRange ==
    cmd.kind = "turn_on" /\ DOMAIN cmd.args = {"brightness"} =>
        LET percent == hex_to_percent(cmd.args["brightness"])
        IN /\ cmd.ok => 10 <= cmd.params["dimming"] /\ cmd.params["dimming"] <= 100
           /\ percent > 100 => ~cmd.ok
           /\ percent < 10 => cmd.ok /\ cmd.params["dimming"] = 10

\* The colour directives in their order of priority, and the fields of the
\* params a colour directive can contribute.
ColourOrder == << "rgb", "rgbw", "rgbww", "colortemp", "hucolor" >>
ColourFields == { "r", "g", "b", "w", "c", "temp" }

\* The colour directives supplied in a, and the one of highest priority.
SuppliedColours(a) == { i \in 1..5 : ColourOrder[i] \in DOMAIN a }
Chosen(a) == ColourOrder[CHOOSE i \in SuppliedColours(a) :
                             \A j \in SuppliedColours(a) : i <= j]

\* What the colour directive p with value v puts into empty params.
Contribution(p, v) ==
    CASE p = "rgb" -> set_rgb(NewBuilder, v)
      [] p = "rgbw" -> set_rgbw(NewBuilder, v)
      [] p = "rgbww" -> set_rgbww(NewBuilder, v)
      [] p = "colortemp" -> set_colortemp(NewBuilder, v)
      [] p = "hucolor" -> set_hs_color(NewBuilder, v)

\* C11: of the colour directives supplied to PilotBuilder exactly the one
\* of highest priority (rgb > rgbw > rgbww > colortemp > hucolor) puts
\* fields into the params, the others put none; a supplied warm_white or
\* cold_white is applied afterwards and replaces the w or c the chosen
\* directive produced.
C11_HighestPriorityColourOnly ==
    cmd.kind = "turn_on" /\ cmd.ok /\ SuppliedColours(cmd.args) # {} =>
        LET a == cmd.args
            only == Contribution(Chosen(a), a[Chosen(a)])
        IN /\ only.ok
           /\ \A k \in ColourFields :
                IF k = "w" /\ "warm_white" \in DOMAIN a
                THEN k \in DOMAIN cmd.params /\ cmd.params[k] = a["warm_white"]
                ELSE IF k = "c" /\ "cold_white" \in DOMAIN a
                THEN k \in DOMAIN cmd.params /\ cmd.params[k] = a["cold_white"]
                ELSE /\ k \in DOMAIN cmd.params <=> k \in DOMAIN only.params
                     /\ k \in DOMAIN only.params => cmd.params[k] = only.params[k]

\* A command was built from rgb and rgbw together, with different colours.
C11_Witness ==
    /\ cmd.kind = "turn_on" /\ cmd.ok
    /\ DOMAIN cmd.args = { "rgb", "rgbw" }
    /\ cmd.args["rgb"] = << 255, 0, 0 >>
    /\ cmd.args["rgbw"] = << 255, 255, 255, 255 >>
    /\ cmd.params["r"] = 255 /\ cmd.params["g"] = 0 /\ cmd.params["w"] = 0

\* C12: for every brightness b from 0 to 255, turn_on(PilotBuilder(
\* brightness=b)) followed by updateState() against a device that stores
\* what it is sent gives get_brightness() = percent_to_hex(max(10,
\* hex_to_percent(b))); b = 10 reads back as 26, hex_to_percent(26) is 10
\* and percent_to_hex(10) is 26.
C12_BrightnessReadback ==
    [][ pc[1] = "done" /\ pc[2] = "idle" /\ pc'[2] = "done"
        /\ cmd.args["brightness"] \in 0..255
        => LET b == cmd.args["brightness"]
           IN /\ get_brightness(state') = percent_to_hex(Max(10, hex_to_percent(b)))
              /\ b = 10 => get_brightness(state') = 26
              /\ hex_to_percent(26) = 10
              /\ percent_to_hex(10) = 26 ]_vars

\* Brightness 10 was sent, stored as 10 percent and read back as 26.
C12_Witness ==
    /\ pc[1] = "done" /\ pc[2] = "done"
    /\ cmd.args["brightness"] = 10
    /\ pilot_state["dimming"] = 10
    /\ state["dimming"] = 10
    /\ get_brightness(state) = 26

\* The two states have the same fields with the same values, src aside.
SameButSrc(old, new) ==
    /\ DOMAIN old \ {"src"} = DOMAIN new \ {"src"}
    /\ \A key \in DOMAIN old \ {"src"} : old[key] = new[key]

\* C13: for two states whose src values differ, states_match() is False
\* whenever the src of either is pir or a WiZmote button, even if every
\* other field is identical, and it is True when neither src is one of
\* those and all other fields are identical.
C13_StatesMatchOnSrc ==
    matching.result # "None" /\ Get(matching.old, "src") # Get(matching.new, "src") =>
        LET special == \E d \in { matching.old, matching.new } :
                           Get(d, "src") \in ALWAYS_SEND_SRCS
        IN /\ special => matching.result = "False"
           /\ ~special /\ SameButSrc(matching.old, matching.new)
                => matching.result = "True"

\* Two states alike but for the source, the old one's being the motion
\* sensor, were found not to match.
C13_Witness ==
    /\ matching.result = "False"
    /\ Get(matching.old, "src") = "pir"
    /\ Get(matching.new, "src") = "udp"
    /\ "sceneId" \in DOMAIN matching.old
    /\ SameButSrc(matching.old, matching.new)

(***************************************************************************)
(* Properties of push updates.                                             *)
(***************************************************************************)

\* This step is the arrival of a syncPilot notification for the mac of
\* facade f, which is subscribed.
Notified(f) ==
    /\ pushlog'.n = pushlog.n + 1
    /\ pushlog'.method = "syncPilot"
    /\ pushlog'.mac = f
    /\ f \in subscriptions

\* The fields of d that a comparison looks at: all but the noisy ones.
Quiet(d) == [key \in DOMAIN d \ IGNORE_STATE_KEYS |-> d[key]]

\* C14: a syncPilot notification whose params differ from the state the
\* facade held only in rssi, ts or mqttCd, the src being the same, does not
\* invoke the push callback and leaves the cached state as it was; it
\* still refreshes last_push.
C14_NoiseOnlyNotDelivered ==
    [][ \A f \in Facades :
          Notified(f) /\ lights[f].state # NoState
          /\ Quiet(pushlog'.params) = Quiet(lights[f].state)
          => /\ f \notin pushlog'.invoked
             /\ lights'[f].state = lights[f].state
             /\ lights'[f].last_push = pushlog'.n
             /\ lights'[f].last_push # lights[f].last_push ]_vars

\* Facade 1 holds a state with a signal strength and got a second
\* notification that differs from it only in having none.
C14_Witness ==
    /\ pushlog.n = 2 /\ pushlog.mac = 1 /\ pushlog.method = "syncPilot"
    /\ pushlog.dispatched = {1} /\ pushlog.invoked = {}
    /\ lights[1].last_push = 2
    /\ "rssi" \in DOMAIN lights[1].state
    /\ "rssi" \notin DOMAIN pushlog.params
    /\ Quiet(pushlog.params) = Quiet(lights[1].state)

\* The fields of d outside rssi, ts, mqttCd and src.
Loud(d) == [key \in DOMAIN d \ (IGNORE_STATE_KEYS \cup {"src"}) |-> d[key]]

\* C15: for a subscribed mac the push callback is invoked, once and with the
\* new state, which replaces the cached state, for every syncPilot
\* notification whose params differ from the state held before in a field
\* outside rssi, ts, mqttCd and src, be it changed, added or no longer
\* there; the first notification, with no state held, is always delivered.
C15_ChangeDelivered ==
    [][ \A f \in Facades :
          Notified(f)
          /\ (lights[f].state = NoState \/ Loud(pushlog'.params) # Loud(lights[f].state))
          => /\ f \in pushlog'.invoked
             /\ lights'[f].state = pushlog'.params ]_vars

\* The push manager is Running: push_running is set and its transport is
\* an open listening socket.
Running == push_running /\ push_transport # 0 /\ push_transport \in sockets

\* C16: the shared listener is never stopped while a subscription remains:
\* whatever start_push() and async_close() calls of facades with distinct
\* macs interleave, no step that leaves a subscription registered takes a
\* Running manager out of Running or closes its listening transport.
C16_NotStoppedWhileSubscribed ==
    [][ Running /\ subscriptions' # {}
        => Running' /\ push_transport' = push_transport ]_vars

\* Facade 1 has unsubscribed and its stop_if_no_subs() has run, facade 2 is
\* still subscribed and the listener runs on.
C16_Witness ==
    /\ Running
    /\ subscriptions = {2}
    /\ lights[1].result = "True" /\ ~lights[1].push_cancel
    /\ budget.closes = 1 /\ stops = 0
    /\ push_lock = NotLocked /\ push_waiters = << >>
    /\ pushlog.halts = 0

\* The push manager is Stopped: push_running is False, the transport is
\* cleared and no listening socket is left open.
Stopped == ~push_running /\ push_transport = 0 /\ sockets = {}

\* C17: once the last subscribed facade has unsubscribed, the push manager
\* reaches Stopped unless a new subscription is registered; and a
\* start_push() that binds the port after the listener was stopped brings
\* it to Running again.
C17_EventuallyStopped ==
    /\ (subscriptions = {}) ~> (subscriptions # {} \/ Stopped)
    /\ \A f \in Facades :
          (pushlog.halts > 0 /\ starting[f] = "endpoint") ~> Running

\* The listener was stopped after the last facade unsubscribed, and a later
\* start_push() has it running again.
C17_Witness ==
    /\ pushlog.halts = 1
    /\ Running
    /\ budget.closes = 1 /\ budget.starts = 2
    /\ subscriptions # {}

\* C18: however the start() calls of several facades interleave, at most
\* one listening socket is bound at any time, and a start() issued while
\* the manager is Running or while another start() is in progress binds
\* nothing new and returns True once the listener is running.  The second
\* part is about start() calls alone, with no async_close() among them.
C18_OneListeningSocket ==
    /\ Cardinality(sockets) <= 1
    /\ budget.closes = 0 =>
          \A f \in Facades :
              lights[f].busy =>
                  /\ starting[f] # "endpoint"
                  /\ starting[f] = "idle" => lights[f].result = "True" /\ Running

\* Facade 2 called start_push() while the start() of facade 1 was in
\* progress; it got True and the only socket is the one facade 1 bound.
C18_Witness ==
    /\ budget.closes = 0
    /\ lights[2].busy /\ starting[2] = "idle" /\ lights[2].result = "True"
    /\ ~lights[1].busy /\ lights[1].result = "True"
    /\ sockets = {1} /\ push_transport = 1 /\ push_running

\* In this step the start_push() of facade f returns False: start() found
\* no source ip or could not bind the port.
StartFails(f) ==
    /\ lights'[f].result = "False"
    /\ starting'[f] = "idle"
    /\ starting[f] = "lock" \/ lights'[f].calls = lights[f].calls + 1

\* C19: when the source ip cannot be determined or the port cannot be
\* bound, start() returns False and leaves the manager Stopped with no
\* transport; start_push() returns False without raising, the facade's
\* push_running stays as it was, False, and no keep-alive is scheduled.
C19_FailedStartLeavesStopped ==
    [][ \A f \in Facades :
          StartFails(f)
          => /\ Stopped /\ Stopped'
             /\ lights'[f].push_running = lights[f].push_running
             /\ lights[f].calls = 0 => ~lights'[f].push_running
             /\ lights'[f].keepalive = lights[f].keepalive ]_vars

\* The first start_push() of facade 1 has returned False: the manager is
\* stopped, the facade is not push_running and has no keep-alive armed.
C19_Witness ==
    /\ lights[1].calls = 1 /\ lights[1].result = "False" /\ starting[1] = "idle"
    /\ ~lights[1].push_running /\ lights[1].keepalive = 0
    /\ Stopped
    /\ 1 \in subscriptions

\* C20: a syncPilot notification carrying mac m invokes only the callback
\* registered for m, and no callback and no change of state of any other
\* facade; a notification whose mac has no subscription invokes no callback
\* and changes the cached state of no facade.
C20_DispatchByMacOnly ==
    [][ (pushlog'.n = pushlog.n + 1 /\ pushlog'.method = "syncPilot")
        => LET m == pushlog'.mac
           IN /\ pushlog'.dispatched \subseteq subscriptions \cap {m}
              /\ pushlog'.invoked \subseteq pushlog'.dispatched
              /\ \A f \in Facades \ {m} : lights'[f] = lights[f]
              /\ m \notin subscriptions
                    => pushlog'.invoked = {} /\ lights' = lights ]_vars

\* Facade 1 is subscribed and has got the first notification; the second,
\* for the mac of facade 2, which has no subscription, was dropped.
C20_Witness ==
    /\ pushlog.n = 2 /\ pushlog.method = "syncPilot" /\ pushlog.mac = 2
    /\ subscriptions = {1}
    /\ pushlog.dispatched = {} /\ pushlog.invoked = {}
    /\ lights[1].last_push = 1 /\ lights[1].state # NoState
    /\ lights[2].state = NoState /\ lights[2].last_push = NEVER_TIME

\* A datagram arrives at the listener in this step.
Received == pushlog'.n = pushlog.n + 1

\* C21: a datagram that is not valid JSON is dropped by the push listener:
\* the manager stays Running, the subscriptions and every facade's state
\* are unchanged, and a valid notification received afterwards is still
\* dispatched to the subscription of its mac.
C21_InvalidJsonDropped ==
    [][ /\ (Received /\ pushlog'.method = "invalid")
           => /\ Running /\ Running'
              /\ UNCHANGED << subscriptions, lights, push_running, push_transport,
                              sockets >>
        /\ (Received /\ pushlog.method = "invalid" /\ pushlog'.method = "syncPilot"
              /\ pushlog'.mac \in subscriptions)
           => /\ pushlog'.dispatched = {pushlog'.mac}
              /\ lights'[pushlog'.mac].last_push = pushlog'.n ]_vars

\* Facade 1 holds the state of the first notification; the second datagram
\* was not JSON and was dropped with the listener running.
C21_Witness ==
    /\ pushlog.n = 2 /\ pushlog.method = "invalid"
    /\ pushlog.dispatched = {} /\ pushlog.invoked = {}
    /\ subscriptions = {1}
    /\ lights[1].last_push = 1 /\ lights[1].state # NoState
    /\ Running

\* C22: when a discovery callback is registered and the running listener
\* receives a firstBeat carrying mac m from address a, the discovery callback
\* is invoked with DiscoveredBulb(a, m).
C22_FirstBeatDiscovers ==
    [][ (Received /\ pushlog'.method = "firstBeat" /\ discovery_callback /\ Running)
        => pushlog'.discovered
              = {DiscoveredBulb(Ip(pushlog'.mac), Mac(pushlog'.mac))} ]_vars

(***************************************************************************)
(* Properties of discovery.                                                *)
(***************************************************************************)

\* The places in the datagrams received of the successful registration
\* replies of mac m.
Replies(m) ==
    { i \in 1..Len(datagrams) :
        datagrams[i].kind \in {"reply", "spaced"} /\ datagrams[i].mac = m }

\* The places of mac m in the registry.
Entries(m) == { j \in 1..Len(registry) : registry[j].mac_address = m }

Latest(S) == CHOOSE i \in S : \A k \in S : k <= i

\* C23: after any sequence of datagrams received during discovery the
\* registry holds exactly one entry for each mac of a successful
\* registration reply, with the source ip of the latest such reply, and no
\* other entry: repeated replies make no second entry and other datagrams
\* add nothing.
C23_RegistryOnePerMac ==
    /\ \A m \in DiscoveryMacs :
          IF Replies(m) = {}
          THEN Entries(m) = {}
          ELSE /\ Cardinality(Entries(m)) = 1
               /\ \A j \in Entries(m) :
                     registry[j].ip_address = datagrams[Latest(Replies(m))].ip
    /\ \A j \in 1..Len(registry) : registry[j].mac_address \in DiscoveryMacs

\* find_wizlights() has returned or raised.
FindOver == find.pc \in {"returned", "raised"}

\* C24: find_wizlights() always terminates after its wait window; when the
\* socket was closed cleanly it returns the contents of the registry, and
\* when the connection was lost with an error it raises that error and
\* returns no list.
C24_FindTerminates ==
    /\ [](find.pc = "returned"
            => /\ find.lost = "None" /\ find.left = 0
               /\ find.result = bulbs(registry))
    /\ []((FindOver /\ find.lost = "OSError")
            => /\ find.pc = "raised" /\ find.error = "OSError" /\ find.left = 0
               /\ find.result = << >>)
    /\ (find.pc # "idle") ~> FindOver

\* The connection was lost with an error after a bulb had replied, and
\* find_wizlights() has raised the error once its window was over.
C24_Witness ==
    /\ find.pc = "raised" /\ find.error = "OSError" /\ find.lost = "OSError"
    /\ find.left = 0
    /\ Len(registry) = 1
    /\ find.result = << >>

(***************************************************************************)
(* Properties of capability resolution.                                    *)
(***************************************************************************)

\* Call c is made in this step.
Called(c) == resolving[c].pc = "idle" /\ resolving'[c].pc # "idle"

\* The calls that have returned a value.
Returners == { c \in Resolvers : resolving[c].pc = "returned" }

\* C25: capabilities are resolved once per facade.  For any interleaving of
\* get_bulbtype() calls, a call made after one has returned a value returns
\* that value at once and sends no request; bulbtype never changes once it
\* is set, and every call that returns a value returns it; a call that fails
\* leaves bulbtype as it was, unset if no call has set it.
C25_ResolvedOnce ==
    [][ /\ \A c \in Resolvers :
              (Called(c) /\ Returners # {})
              => /\ resolving'[c].pc = "returned"
                 /\ \A d \in Returners : resolving'[c].ret = resolving[d].ret
                 /\ sent' = sent
        /\ bulbtype # << >> => bulbtype' = bulbtype
        /\ \A c \in Returners : resolving[c].ret = bulbtype /\ bulbtype # << >>
        /\ \A c \in Resolvers :
              (resolving[c].pc # "raised" /\ resolving'[c].pc = "raised")
              => bulbtype' = bulbtype
        /\ Returners = {} => bulbtype = << >> ]_vars

\* On a device without getModelConfig the first call has resolved the type
\* with five requests and the second call, made afterwards, has returned the
\* same type without a request.
C25_Witness ==
    /\ firmware = "old"
    /\ resolving[1].pc = "returned" /\ resolving[2].pc = "returned"
    /\ resolving[1].ret = bulbtype /\ resolving[2].ret = bulbtype
    /\ bulbtype # << >>
    /\ Len(sent) = 5
    /\ \A i \in 1..Len(sent) : sent[i].call = 1 /\ sent[i].outcome # "pending"

\* The request that is handed to send() in this step, if there is one.
Asked(method) ==
    /\ Len(sent') = Len(sent) + 1
    /\ sent'[Len(sent')].method = method

\* The request that send() completes in this step.
Oldest == CHOOSE k \in Pending : \A j \in Pending : k <= j
Completed(method, outcomes) ==
    /\ Pending # {}
    /\ sent[Oldest].method = method
    /\ sent'[Oldest].outcome \in outcomes

\* C26: during capability resolution getModelConfig is requested before
\* getUserConfig, and getUserConfig only if getModelConfig failed with
\* MethodNotFound or returned no result; a Timeout or ConnectionError of
\* getModelConfig leaves to the caller with no getUserConfig request made,
\* and so does an error of the getUserConfig fallback.
C26_ModelConfigFirst ==
    [][ /\ Asked("getUserConfig")
           => /\ \E i \in 1..Len(sent) :
                    /\ sent'[i].method = "getModelConfig"
                    /\ sent'[i].outcome \in {"MethodNotFound", "noresult"}
              /\ modelConfig' \in {"None", "noresult"}
              /\ ~Completed("getModelConfig", {"Timeout", "ConnectionError"})
        /\ \A o \in {"Timeout", "ConnectionError"} :
              (Completed("getModelConfig", {o}) \/ Completed("getUserConfig", {o}))
              => /\ resolving'[sent[Oldest].call].pc = "raised"
                 /\ resolving'[sent[Oldest].call].error = o
                 /\ Len(sent') = Len(sent) ]_vars

\* On a device without getModelConfig a call has asked for the system
\* configuration, then for the model configuration, which the device does
\* not know, and then for the user configuration.
C26_Witness ==
    /\ firmware = "old"
    /\ Len(sent) = 3
    /\ sent[1].method = "getSystemConfig" /\ sent[1].outcome = "result"
    /\ sent[2].method = "getModelConfig" /\ sent[2].outcome = "MethodNotFound"
    /\ sent[3].method = "getUserConfig" /\ sent[3].outcome = "pending"
    /\ resolving[1].pc = "white_user"
(***************************************************************************)
(* Properties of updateState() under push updates.                         *)
(***************************************************************************)
\* A syncPilot notification for the facade arrived within the last
\* MAX_TIME_BETWEEN_PUSH.
PushedLately ==
    /\ clock.notified # << >>
    /\ Ticks(clock.now - clock.notified[1]) <= MAX_TIME_BETWEEN_PUSH

\* C27: an updateState() called while a syncPilot notification for the
\* facade arrived within the last MAX_TIME_BETWEEN_PUSH = 33 s sends no
\* getPilot request and returns the state the push cached, which it leaves
\* as it is; an updateState() called after that window has passed without a
\* notification, or before any notification, sends getPilot.
C27_PushWindowSkipsPoll ==
    [][clock'.updates = clock.updates + 1 =>
         IF PushedLately
         THEN /\ clock'.polls = clock.polls
              /\ clock'.error = ""
              /\ clock'.ret = lights[1].state
              /\ clock'.ret # NoState
              /\ lights' = lights
         ELSE clock'.polls = clock.polls + 1]_vars

\* Two updateState() calls of a facade whose last notification arrived at
\* second 1: one within the window, which sent nothing, and one at second
\* 35, when the window was over, which sent getPilot.
C27_Witness ==
    /\ MAX_TIME_BETWEEN_PUSH = 3300
    /\ clock.notified = << 1 >>
    /\ clock.updates = 2
    /\ clock.polls = 1
    /\ clock.at = 35
    /\ clock.error = ""
    /\ clock.ret # NoState

(***************************************************************************)
(* Properties of the colour conversions.                                   *)
(***************************************************************************)
\* The saturation of the hue vector h of a colour in 0..255 is at least
\* percent: Sqrt(LenSq4(h)) / MaxRoot >= percent / 100.
SaturationAtLeast(h, percent) ==
    100 * LenSq4(h) >= percent * percent * ((MaxRoot * MaxRoot) \div 100)

\* The angle between the hue vectors u and v is below 2 degrees: its tangent,
\* Sqrt(3) * |Cross| / Dot4, is at most Sqrt(3) * 56 / (97 * HueCotangent),
\* which is less than 1 / HueCotangent = tan(1.91 degrees), for 97 / 56 is
\* more than Sqrt(3).
HueWithin(u, v) ==
    /\ Dot4(u, v) > 0
    /\ 97 * HueCotangent * Cross(u, v) <= 56 * Dot4(u, v)
    /\ 97 * HueCotangent * Cross(v, u) <= 56 * Dot4(u, v)

DefaultTiming == timing = [first |-> FIRST_SEND_INTERVAL, timeout |-> TIMEOUT]

\* The times of the six transmissions, from the start of the wait.
Offsets == << 0, 75, 225, 525, 825, 1125 >>

\* wait_for's timer ends the wait of call c in this step.
TimesOut(c) == timedOut'[c] /\ ~timedOut[c]

\* C29: with the default constants the k-th transmission of a request goes
\* out 0, 0.75, 2.25, 5.25, 8.25 and 11.25 s after the request began to
\* wait, on the association the request began with; no request transmits
\* more than MAX_SEND_DATAGRAMS = 6 datagrams; and a request that times out
\* on an association that stayed open has transmitted all six.
C29_RetransmissionSchedule ==
    /\ [](\A c \in Calls : task[c].send <= MAX_SEND_DATAGRAMS)
    /\ [][\A c \in Calls :
            /\ task'[c].send > task[c].send =>
                  /\ task'[c].send = task[c].send + 1
                  /\ << c, task[c].via >> \in wire'
                  /\ task'[c].via = task[c].via
                  /\ DefaultTiming => elapsed[c] = Offsets[task'[c].send]
            /\ TimesOut(c) /\ DefaultTiming /\ task[c].via \in open =>
                  task[c].send = MAX_SEND_DATAGRAMS]_vars

\* A request with the default constants has made its sixth transmission,
\* 11.25 s after it began to wait.
C29_Witness ==
    \E c \in Calls :
        /\ DefaultTiming
        /\ pc[c] = "waiting"
        /\ task[c].send = MAX_SEND_DATAGRAMS
        /\ task[c].st = "sleeping"
        /\ task[c].left = MAX_BACKOFF
        /\ elapsed[c] = Offsets[MAX_SEND_DATAGRAMS]

Transmitted(c) == task[c].send

C31_NoDatagramAfterCompletion ==
    [][\A c \in Calls :
          (FutureDone(c) \/ pc[c] = "done" \/ task[c].via \notin open)
             => Transmitted(c)' <= Transmitted(c)]_vars

\* A request whose association was closed in the middle of the schedule: its
\* task woke up from a backoff sleep and returned while send() still waits.
C31_Witness ==
    \E c \in Calls :
       /\ pc[c] = "waiting"
       /\ futures[c].status = "pending"
       /\ task[c].st = "done"
       /\ task[c].send \in 2..(MAX_SEND_DATAGRAMS - 1)
       /\ task[c].via # 0 /\ task[c].via \notin open

(***************************************************************************)
(* C32: a facade has at most one open datagram association at any time,    *)
(* and every association that is open is the one the facade holds, so that *)
(* async_close() closes every association that was created.                *)
(***************************************************************************)
C32_OneAssociation ==
    /\ Cardinality(open) <= 1
    /\ open \subseteq {transport}

(***************************************************************************)
(* C33: a retransmission task that has not finished belongs to the call    *)
(* that holds the lock, and in every step in which a call releases the     *)
(* lock its task has finished before the step: no retransmission task is   *)
(* running while the lock is free.                                         *)
(***************************************************************************)
TaskRunning(c) == task[c].st \in {"ready", "sleeping", "cancelling"}

C33_NoTaskWhileLockFree ==
    [][/\ \A c \in Calls : TaskRunning(c) => lockHolder = c
       /\ \A c \in Calls : lockHolder = c /\ lockHolder' # c => ~TaskRunning(c)]_vars

\* A request that timed out after TIMEOUT on an association that is still
\* open, so that its task was sleeping and had to be cancelled, has ended and
\* the lock is free.
C33_Witness ==
    \E c \in Calls :
       /\ timing.timeout = TIMEOUT
       /\ timedOut[c]
       /\ pc[c] = "done"
       /\ task[c].via \in open
       /\ task[c].st = "done"
       /\ lockHolder = 0

(***************************************************************************)
(* C38: every send() that was called ends with a response or an exception, *)
(* whatever the device sends and however many calls wait for the lock; a   *)
(* call never waits longer than TIMEOUT for its response, and when it has  *)
(* ended it does not hold the lock.                                        *)
(***************************************************************************)
C38_SendTerminates ==
    /\ \A c \in Calls : (pc[c] # "idle") ~> (pc[c] = "done" /\ outcome[c] # "")
    /\ [](\A c \in Calls : elapsed[c] <= timing.timeout)
    /\ [](\A c \in Calls : pc[c] = "done" => lockHolder # c)

\* With the default timing two calls were made at the same time, the first
\* timed out, and the second, which had waited for the lock, has ended too.
C38_Witness ==
    /\ timing.timeout = TIMEOUT
    /\ \A c \in Calls : pc[c] = "done" /\ outcome[c] # ""
    /\ timedOut[1]
    /\ \E c \in Calls : c # 1 /\ task[c].via # 0 /\ outcome[c] # "ok"
    /\ lockHolder = 0 /\ waiters = << >>

(***************************************************************************)
(* C39: the setState message of set_state() carries the power state the    *)
(* facade last learnt of the device, and carries no state at all when the  *)
(* facade knows none (nothing cached, or a cached result without a state). *)
(***************************************************************************)
C39_SetStateKeepsPower ==
    cmd.kind = "set_state" /\ cmd.ok
       => LET known == status(lights[1].state)
          IN IF known = "None"
             THEN "state" \notin DOMAIN cmd.params
             ELSE /\ "state" \in DOMAIN cmd.params
                  /\ cmd.params["state"] = (known = "True")

(***************************************************************************)
(* C34: while a facade has push_running set a keep-alive timer is pending, *)
(* so that register() runs when start_push() succeeds and every            *)
(* PUSH_KEEP_ALIVE_INTERVAL after, and every registration task that has    *)
(* run handed its request to the device: it ended with the response or     *)
(* with Timeout or ConnectionError, which the task keeps to itself.        *)
(***************************************************************************)
C34_KeepAliveRegisters ==
    \A f \in Facades :
       /\ lights[f].push_running => lights[f].timers # << >>
       /\ lights[f].task_error \in {"", "WizLightTimeOutError", "WizLightConnectionError"}

(***************************************************************************)
(* C35: once async_close() has run on a facade, and until start_push() is  *)
(* called on it again, its push_running is False and register() creates no *)
(* further registration task for it.                                       *)
(***************************************************************************)
Closed(f) == lights[f].calls > 0 /\ ~lights[f].push_cancel

C35_ClosedStaysQuiet ==
    [][\A f \in Facades :
          Closed(f) /\ Closed(f)'
             => /\ ~lights'[f].push_running
                /\ lights'[f].keepalive = lights[f].keepalive]_vars

(***************************************************************************)
(* C36: a facade has at most one keep-alive timer pending, whatever        *)
(* start_push() and async_close() calls were made.                         *)
(***************************************************************************)
C36_OneKeepAliveTimer ==
    \A f \in Facades : Len(lights[f].timers) <= 1

(***************************************************************************)
(* C37: with two facades subscribed under one mac the subscription map     *)
(* counts its owners: as long as a facade that subscribed has not been     *)
(* closed, the subscription is registered (so that the listener is not     *)
(* stopped), and no async_close() raises an error.                         *)
(***************************************************************************)
C37_SharedMacCounted ==
    \A f \in Facades :
       /\ lights[f].error = ""
       /\ lights[f].push_cancel => subscriptions # {}

====
